---------------------------- MODULE Spec2Model ----------------------------
(***************************************************************************)
(* A model of piglet, the animated figlet player: the Timeline frame       *)
(* accounting (src/src/animation/timeline.rs), the render loop with its    *)
(* key listener (src/src/animation/renderer.rs), the terminal guard        *)
(* (src/src/utils/terminal.rs) and the playback driver run_piglet          *)
(* (src/src/main.rs).                                                      *)
(***************************************************************************)
EXTENDS Integers, Sequences, FiniteSets, TLC

(***************************************************************************)
(* IEEE-754 binary64 arithmetic, as far as Timeline::new needs it.  A      *)
(* non-negative double is [m, e], the value m * 2^e, with m an unbounded   *)
(* natural held as little-endian limbs of 15 bits (zero is the empty       *)
(* sequence), since a 53-bit significand does not fit a 32-bit integer.    *)
(***************************************************************************)
LimbBits == 15

LimbBase == 2^15

F64MantissaBits == 53

RECURSIVE BigNorm(_)
BigNorm(a) ==
    IF a # <<>> /\ a[Len(a)] = 0 THEN BigNorm(SubSeq(a, 1, Len(a) - 1)) ELSE a

RECURSIVE BigFromNat(_)
BigFromNat(n) ==
    IF n = 0 THEN <<>> ELSE <<n % LimbBase>> \o BigFromNat(n \div LimbBase)

RECURSIVE BigToNat(_)
BigToNat(a) ==
    IF a = <<>> THEN 0 ELSE a[1] + LimbBase * BigToNat(Tail(a))

RECURSIVE BigMulGo(_, _, _)
BigMulGo(a, s, carry) ==
    IF a = <<>> THEN BigFromNat(carry)
    ELSE LET v == a[1] * s + carry
         IN  <<v % LimbBase>> \o BigMulGo(Tail(a), s, v \div LimbBase)

\* a * s for a small s (s < 2^15)
BigMulSmall(a, s) == BigNorm(BigMulGo(a, s, 0))

BigAddSmall(a, c) == BigNorm(BigMulGo(a, 1, c))

\* long division of the limbs 1..i of a by a small s, most significant first
RECURSIVE BigDivGo(_, _, _, _)
BigDivGo(a, s, i, rem) ==
    IF i = 0 THEN [q |-> <<>>, r |-> rem]
    ELSE LET cur  == rem * LimbBase + a[i]
             rest == BigDivGo(a, s, i - 1, cur % s)
         IN  [q |-> Append(rest.q, cur \div s), r |-> rest.r]

BigDivSmall(a, s) ==
    LET d == BigDivGo(a, s, Len(a), 0) IN [q |-> BigNorm(d.q), r |-> d.r]

RECURSIVE SmallBitLen(_)
SmallBitLen(n) == IF n = 0 THEN 0 ELSE 1 + SmallBitLen(n \div 2)

BigBitLen(a) ==
    IF a = <<>> THEN 0 ELSE LimbBits * (Len(a) - 1) + SmallBitLen(a[Len(a)])

BigOdd(a) == a # <<>> /\ a[1] % 2 = 1

\* a * 2^(15 * limbs)
BigShiftLimbsLeft(a, limbs) ==
    IF a = <<>> THEN <<>> ELSE [i \in 1..limbs |-> 0] \o a

\* floor(a / 2^s), and whether a non-zero bit was shifted out
BigShiftRight(a, s) ==
    LET limbs   == IF s \div LimbBits > Len(a) THEN Len(a) ELSE s \div LimbBits
        bits    == IF s \div LimbBits > Len(a) THEN 0 ELSE s % LimbBits
        dropped == \E i \in 1..limbs : a[i] # 0
        kept    == SubSeq(a, limbs + 1, Len(a))
        d       == BigDivSmall(kept, 2^bits)
    IN  [q |-> d.q, sticky |-> dropped \/ d.r # 0]

\* round-to-nearest, ties-to-even, of (a + a fraction that is non-zero iff
\* sticky) / 2^s, for s >= 1
BigRoundShift(a, s, sticky) ==
    LET d     == BigShiftRight(a, s - 1)
        guard == BigOdd(d.q)
        q     == BigDivSmall(d.q, 2).q
        up    == guard /\ (sticky \/ d.sticky \/ BigOdd(q))
    IN  IF up THEN BigAddSmall(q, 1) ELSE q

\* the double nearest to a * 2^e (a fraction below a's unit non-zero iff sticky)
F64Round(a, e, sticky) ==
    LET len == BigBitLen(a)
    IN  IF len <= F64MantissaBits
        THEN [m |-> a, e |-> e]
        ELSE [m |-> BigRoundShift(a, len - F64MantissaBits, sticky),
              e |-> e + (len - F64MantissaBits)]

F64Zero == [m |-> <<>>, e |-> 0]

\* `n as f64` for an integer below 2^31: exact
F64FromNat(n) == [m |-> BigFromNat(n), e |-> 0]

\* x / 1000.0 for an integer-valued x: the quotient is taken with 75 extra
\* bits and its remainder is the sticky bit of the rounding
F64DivThousand(x) ==
    IF x.m = <<>> THEN F64Zero
    ELSE LET d == BigDivSmall(BigShiftLimbsLeft(x.m, 5), 1000)
         IN  F64Round(d.q, x.e - 5 * LimbBits, d.r # 0)

\* x * (f as f64) for a u32 f below 2^15
F64MulNat(x, f) ==
    IF x.m = <<>> \/ f = 0 THEN F64Zero
    ELSE F64Round(BigMulSmall(x.m, f), x.e, FALSE)

\* x.ceil() as usize, for a result below 2^31
F64CeilToNat(x) ==
    IF x.m = <<>> THEN 0
    ELSE IF x.e >= 0 THEN BigToNat(x.m) * 2^(x.e)
    ELSE LET d == BigShiftRight(x.m, 0 - x.e)
         IN  BigToNat(d.q) + (IF d.sticky THEN 1 ELSE 0)

(***************************************************************************)
(* Timeline (src/src/animation/timeline.rs).  start_time is kept as "is it  *)
(* Some": the Instant itself is read only by the unused elapsed().         *)
(***************************************************************************)
\* line 13: ((duration_ms as f64 / 1000.0) * fps as f64).ceil() as usize
TimelineTotalFrames(duration_ms, fps) ==
    F64CeilToNat(F64MulNat(F64DivThousand(F64FromNat(duration_ms)), fps))

TimelineNew(duration_ms, fps) ==
    [duration_ms   |-> duration_ms,
     fps           |-> fps,
     start_time    |-> FALSE,
     current_frame |-> 0,
     total_frames  |-> TimelineTotalFrames(duration_ms, fps)]

TimelineStart(t) == [t EXCEPT !.start_time = TRUE, !.current_frame = 0]

TimelineReset(t) == [t EXCEPT !.start_time = FALSE, !.current_frame = 0]

Mut_IsComplete_OneEarly(t) == t.current_frame + 1 >= t.total_frames

IsComplete(t) == t.current_frame >= t.total_frames

\* A progress value is the double nearest to num / den, written <<num, den>>
\* in lowest form n/n = 1/1; the quotient of two integers below 2^53 is 1.0
\* exactly when they are equal, and is monotone in num.
One == <<1, 1>>

Mut_Progress_ZeroFramesIsZero(t) ==
    IF t.total_frames = 0 THEN <<0, 1>>
    ELSE IF t.current_frame >= t.total_frames THEN One
    ELSE <<t.current_frame, t.total_frames>>

Mut_Progress_IntegerDivision(t) ==
    IF t.total_frames = 0 THEN One
    ELSE IF t.current_frame >= t.total_frames THEN One
    ELSE <<0, 1>>

Progress(t) ==
    IF t.total_frames = 0 THEN One
    ELSE IF t.current_frame >= t.total_frames THEN One
    ELSE <<t.current_frame, t.total_frames>>

\* p <= q for progress values
ProgressLeq(p, q) == p[1] * q[2] <= q[1] * p[2]

Mut_NextFrame_NoGuard(t) ==
    [t |-> [t EXCEPT !.current_frame = @ + 1], ret |-> TRUE]

Mut_NextFrame_TwoFrames(t) ==
    IF IsComplete(t) THEN [t |-> t, ret |-> FALSE]
    ELSE [t |-> [t EXCEPT !.current_frame = @ + 2], ret |-> TRUE]

\* next_frame(): the timeline after the call, and the value returned
NextFrame(t) ==
    IF IsComplete(t) THEN [t |-> t, ret |-> FALSE]
    ELSE [t |-> [t EXCEPT !.current_frame = @ + 1], ret |-> TRUE]

Mut_FrameDuration_OneSecond(t) == 1000

\* frame_duration() in milliseconds; 1000 / 0 panics
FrameDuration(t) == 1000 \div t.fps

(***************************************************************************)
(* Bounds of the model.                                                    *)
(***************************************************************************)
\* lines of the art figlet returns
MaxLines == 2

\* render calls in one run (looped playback never ends by itself)
MaxIter == 2

\* input events the user produces in one run
MaxEvents == 2

\* next_frame() calls past completion in the Timeline harness
MaxExtraCalls == 2

\* durations 0..MaxDurationMs of the Timeline harness
MaxDurationMs == 36

\* renderer.rs:148  Duration::from_millis(5)
ChunkMs == 5

(***************************************************************************)
(* Command line (src/src/cli.rs) and its parsers.  A duration string is    *)
(* its leading number (-1: none) and the unit text after it.               *)
(***************************************************************************)
DurationArgs ==
    { [digits |-> 0,  unit |-> "s"],
      [digits |-> 8,  unit |-> "ms"],
      [digits |-> 16, unit |-> "ms"],
      [digits |-> 10, unit |-> ""],
      [digits |-> 10, unit |-> "x"],
      [digits |-> -1, unit |-> "ms"] }

FpsArgs == {0, 125}

UnitMs(unit) ==
    CASE unit = "ms" -> 1
      [] unit = "s"  -> 1000
      [] unit = "m"  -> 60 * 1000
      [] unit = "h"  -> 60 * 60 * 1000

\* parse_duration: the regex ^(\d+(?:\.\d+)?)(ms|s|m|h)$, then value * unit
ParseDuration(d) ==
    IF d.digits < 0 \/ d.unit \notin {"ms", "s", "m", "h"}
    THEN [ok |-> FALSE, ms |-> 0]
    ELSE [ok |-> TRUE, ms |-> d.digits * UnitMs(d.unit)]

\* Color::new (parser/color.rs): channels are u8
ColorNew(r, g, b) == [r |-> r, g |-> g, b |-> b]

Red == ColorNew(255, 0, 0)

Green == ColorNew(0, 128, 0)

Blue == ColorNew(0, 0, 255)

White == ColorNew(255, 255, 255)

\* ColorPalette::rainbow
Rainbow ==
    << ColorNew(255, 0, 0), ColorNew(255, 127, 0), ColorNew(255, 255, 0),
       ColorNew(0, 255, 0), ColorNew(0, 0, 255), ColorNew(75, 0, 130),
       ColorNew(148, 0, 211) >>

Mut_GetColor_ClampIndex(colors, index) ==
    IF colors = <<>> THEN ColorNew(255, 255, 255)
    ELSE colors[(IF index >= Len(colors) THEN Len(colors) - 1 ELSE index) + 1]

\* ColorPalette::get_color: a Vec is indexed from 0, a sequence from 1
GetColor(colors, index) ==
    IF colors = <<>> THEN ColorNew(255, 255, 255)
    ELSE colors[(index % Len(colors)) + 1]

\* the colour strings used here that csscolorparser accepts, with the
\* channels Color::from_hex gets for them ((c * 255.0) as u8, c = 0.0 or 1.0)
CssColors == {"red", "blue", "white"}

CssColorValue(str) ==
    CASE str = "red"   -> Red
      [] str = "blue"  -> Blue
      [] str = "white" -> White

\* Color::parse
ColorParse(str) ==
    IF str \in CssColors THEN [ok |-> TRUE, color |-> CssColorValue(str)]
    ELSE [ok |-> FALSE, color |-> "none"]

\* --color-palette: Option<Vec<String>>
PaletteArgs ==
    { [some |-> FALSE, colors |-> <<>>],
      [some |-> TRUE,  colors |-> <<"red", "blue">>],
      [some |-> TRUE,  colors |-> <<"red", "nocolor">>] }

\* ColorPalette::from_strings
PaletteFromStrings(colors) ==
    IF \A i \in 1..Len(colors) : ColorParse(colors[i]).ok
    THEN [ok |-> TRUE, colors |-> [i \in 1..Len(colors) |-> ColorParse(colors[i]).color]]
    ELSE [ok |-> FALSE, colors |-> <<>>]

\* ColorEngine::with_palette on ColorEngine::new(): the engine's mode
WithPalette(palette) ==
    IF palette.some /\ palette.colors # <<>>
    THEN LET r == PaletteFromStrings(palette.colors)
         IN  IF r.ok THEN [ok |-> TRUE, mode |-> [kind |-> "Palette", colors |-> r.colors]]
             ELSE [ok |-> FALSE, mode |-> "none"]
    ELSE [ok |-> TRUE, mode |-> [kind |-> "None"]]

\* A position or a progress t of a gradient is an f64; it is written here as
\* a whole number of 1/8: the values used are multiples of 1/8 and the stops
\* are a power of two of them apart, so that every f64 operation of
\* color_at and interpolate is exact.
PositionUnit == 8

\* one comma-separated, trimmed part of a gradient string: `text`, or
\* `text N%` when percent is not -1
Part(text) == [text |-> text, percent |-> -1]

PartAt(text, percent) == [text |-> text, percent |-> percent]

\* --color-gradient: Option<String>; the string is given by whether it
\* starts with "linear-gradient(", whether it ends with ")", and the parts
\* between
GradientString(prefix, suffix, parts) ==
    [some |-> TRUE, prefix |-> prefix, suffix |-> suffix, parts |-> parts]

GradientArgs ==
    { [some |-> FALSE, prefix |-> TRUE, suffix |-> TRUE, parts |-> <<>>],
      GradientString(TRUE, TRUE, <<Part("90deg"), Part("red"), Part("blue")>>),
      GradientString(FALSE, TRUE, <<Part("red"), Part("blue")>>),
      GradientString(TRUE, FALSE, <<Part("red"), Part("blue")>>),
      GradientString(TRUE, TRUE, <<Part("red"), Part("nocolor")>>) }

\* first parts that end with "deg"
AngleParts == {"90deg", "45deg"}

\* first parts that start with "to "
DirectionParts == {"to right", "to left", "to top", "to bottom"}

\* Gradient::parse, lines 39-60: the parts that are colour stops
GradientColorParts(parts) ==
    IF parts # <<>> /\ parts[1].text \in AngleParts \cup DirectionParts
    THEN Tail(parts) ELSE parts

\* lines 68-79: i / (count - 1).max(1), or p / 100.0
StopPosition(part, i, count) ==
    IF part.percent # -1 THEN (part.percent * PositionUnit) \div 100
    ELSE (i * PositionUnit) \div (IF count - 1 > 1 THEN count - 1 ELSE 1)

\* Gradient::parse: the stops of the Gradient, or an Err
GradientParse(g) ==
    IF ~g.prefix THEN [ok |-> FALSE, stops |-> <<>>]
    ELSE IF ~g.suffix THEN [ok |-> FALSE, stops |-> <<>>]
    ELSE IF g.parts = <<>> THEN [ok |-> FALSE, stops |-> <<>>]
    ELSE LET cp == GradientColorParts(g.parts)
         IN  IF \A i \in 1..Len(cp) : ColorParse(cp[i].text).ok
             THEN [ok |-> TRUE,
                   stops |-> [i \in 1..Len(cp) |->
                                [color    |-> ColorParse(cp[i].text).color,
                                 position |-> StopPosition(cp[i], i - 1, Len(cp))]]]
             ELSE [ok |-> FALSE, stops |-> <<>>]

\* ColorEngine::with_gradient on ColorEngine::new(): the engine's mode
WithGradient(gradient) ==
    IF gradient.some
    THEN LET r == GradientParse(gradient)
         IN  IF r.ok THEN [ok |-> TRUE, mode |-> [kind |-> "Gradient", stops |-> r.stops]]
             ELSE [ok |-> FALSE, mode |-> "none"]
    ELSE [ok |-> TRUE, mode |-> [kind |-> "None"]]

Mut_Interpolate_StepAtHalf(c1, c2, num, den) ==
    IF den # 0 /\ 2 * num < den THEN c1 ELSE c2

\* one channel of Color::interpolate at t = num / den, 0 <= t <= 1:
\* (a as f64 + (b as f64 - a as f64) * t) as u8, a cast that truncates;
\* den = 0 is t = 0.0 / 0.0, a NaN, which the cast turns into 0
InterpolateChannel(a, b, num, den) ==
    IF den = 0 THEN 0 ELSE (a * den + (b - a) * num) \div den

\* Color::interpolate(c1, c2, t) at t = num / den
Interpolate(c1, c2, num, den) ==
    ColorNew(InterpolateChannel(c1.r, c2.r, num, den),
             InterpolateChannel(c1.g, c2.g, num, den),
             InterpolateChannel(c1.b, c2.b, num, den))

\* a ColorStop
Stop(color, position) == [color |-> color, position |-> position]

\* t.clamp(0.0, 1.0)
ClampUnit(t) == IF t < 0 THEN 0 ELSE IF t > PositionUnit THEN PositionUnit ELSE t

\* Gradient::color_at: the first pair of neighbouring stops that brackets
\* the clamped t is interpolated; with none, the last stop's colour
ColorAt(stops, t) ==
    IF stops = <<>> THEN ColorNew(255, 255, 255)
    ELSE IF Len(stops) = 1 THEN stops[1].color
    ELSE LET tc   == ClampUnit(t)
             hits == {i \in 1..(Len(stops) - 1) :
                         tc >= stops[i].position /\ tc <= stops[i + 1].position}
             i    == CHOOSE h \in hits : \A k \in hits : h <= k
         IN  IF hits # {}
             THEN Interpolate(stops[i].color, stops[i + 1].color,
                              tc - stops[i].position,
                              stops[i + 1].position - stops[i].position)
             ELSE stops[Len(stops)].color

\* the arms of get_effect's match, in order: <<pattern, struct>>
EffectArms ==
    <<
      <<"fade-in", "FadeIn">>, <<"fade-out", "FadeOut">>,
      <<"fade-in-out", "FadeInOut">>, <<"slide-in-top", "SlideInTop">>,
      <<"slide-in-bottom", "SlideInBottom">>,
      <<"slide-in-left", "SlideInLeft">>,
      <<"slide-in-right", "SlideInRight">>, <<"scale-up", "ScaleUp">>,
      <<"scale-down", "ScaleDown">>, <<"pulse", "Pulse">>,
      <<"bounce-in", "BounceIn">>, <<"bounce-out", "BounceOut">>,
      <<"typewriter", "Typewriter">>,
      <<"typewriter-reverse", "TypewriterReverse">>, <<"wave", "Wave">>,
      <<"jello", "Jello">>, <<"color-cycle", "ColorCycle">>,
      <<"rainbow", "Rainbow">>, <<"gradient-flow", "GradientFlow">>,
      <<"rotate-in", "RotateIn">>, <<"rotate-out", "RotateOut">>,
      <<"shake", "Shake">>, <<"wobble", "Wobble">>, <<"vibrate", "Vibrate">>,
      <<"heartbeat", "Heartbeat">>, <<"flip-horizontal", "FlipHorizontal">>,
      <<"flip-vertical", "FlipVertical">>, <<"swing", "Swing">>,
      <<"sway", "Sway">>, <<"roll-in", "RollIn">>, <<"roll-out", "RollOut">>,
      <<"puff-in", "PuffIn">>, <<"puff-out", "PuffOut">>,
      <<"slide-rotate-hor", "SlideRotateHor">>,
      <<"slide-rotate-ver", "SlideRotateVer">>, <<"flicker", "Flicker">>,
      <<"tracking-in", "TrackingIn">>, <<"tracking-out", "TrackingOut">>,
      <<"bounce-top", "BounceTop">>, <<"bounce-bottom", "BounceBottom">>,
      <<"tilt-in", "TiltIn">>, <<"slide-out-top", "SlideOutTop">>,
      <<"slide-out-bottom", "SlideOutBottom">>,
      <<"slide-out-left", "SlideOutLeft">>,
      <<"slide-out-right", "SlideOutRight">>, <<"blink", "Blink">>,
      <<"focus-in", "FocusIn">>, <<"blur-out", "BlurOut">>,
      <<"shadow-drop", "ShadowDrop">>, <<"shadow-pop", "ShadowPop">>,
      <<"rotate-center", "RotateCenter">> >>

\* the names get_effect accepts
EffectNames == {EffectArms[i][1] : i \in 1..Len(EffectArms)}

\* each `impl Effect for S`: <<S, the string S::name() returns>>
EffectImpls ==
    <<
      <<"FadeIn", "fade-in">>, <<"FadeOut", "fade-out">>,
      <<"FadeInOut", "fade-in-out">>, <<"SlideInTop", "slide-in-top">>,
      <<"SlideInBottom", "slide-in-bottom">>,
      <<"SlideInLeft", "slide-in-left">>,
      <<"SlideInRight", "slide-in-right">>, <<"ScaleUp", "scale-up">>,
      <<"ScaleDown", "scale-down">>, <<"Pulse", "pulse">>,
      <<"BounceIn", "bounce-in">>, <<"BounceOut", "bounce-out">>,
      <<"Typewriter", "typewriter">>,
      <<"TypewriterReverse", "typewriter-reverse">>, <<"Wave", "wave">>,
      <<"Jello", "jello">>, <<"RotateIn", "rotate-in">>,
      <<"RotateOut", "rotate-out">>, <<"ColorCycle", "color-cycle">>,
      <<"Rainbow", "rainbow">>, <<"GradientFlow", "gradient-flow">>,
      <<"Shake", "shake">>, <<"Wobble", "wobble">>, <<"Vibrate", "vibrate">>,
      <<"Heartbeat", "heartbeat">>, <<"FlipHorizontal", "flip-horizontal">>,
      <<"FlipVertical", "flip-vertical">>, <<"Swing", "swing">>,
      <<"Sway", "sway">>, <<"RollIn", "roll-in">>, <<"RollOut", "roll-out">>,
      <<"PuffIn", "puff-in">>, <<"PuffOut", "puff-out">>,
      <<"SlideRotateHor", "slide-rotate-hor">>,
      <<"SlideRotateVer", "slide-rotate-ver">>, <<"Flicker", "flicker">>,
      <<"TrackingIn", "tracking-in">>, <<"TrackingOut", "tracking-out">>,
      <<"BounceTop", "bounce-top">>, <<"BounceBottom", "bounce-bottom">>,
      <<"TiltIn", "tilt-in">>, <<"SlideOutTop", "slide-out-top">>,
      <<"SlideOutBottom", "slide-out-bottom">>,
      <<"SlideOutLeft", "slide-out-left">>,
      <<"SlideOutRight", "slide-out-right">>, <<"Blink", "blink">>,
      <<"FocusIn", "focus-in">>, <<"BlurOut", "blur-out">>,
      <<"ShadowDrop", "shadow-drop">>, <<"ShadowPop", "shadow-pop">>,
      <<"RotateCenter", "rotate-center">> >>

\* Effect::name() of the effect struct
EffectName(struct) ==
    EffectImpls[CHOOSE i \in 1..Len(EffectImpls) : EffectImpls[i][1] = struct][2]

\* list_effects()
ListEffects ==
    <<
      "fade-in", "fade-out", "fade-in-out", "slide-in-top",
      "slide-in-bottom", "slide-in-left", "slide-in-right", "scale-up",
      "scale-down", "pulse", "bounce-in", "bounce-out", "typewriter",
      "typewriter-reverse", "wave", "jello", "color-cycle", "rainbow",
      "gradient-flow", "rotate-in", "rotate-out", "shake", "wobble",
      "vibrate", "heartbeat", "flip-horizontal", "flip-vertical", "swing",
      "sway", "roll-in", "roll-out", "puff-in", "puff-out",
      "slide-rotate-hor", "slide-rotate-ver", "flicker", "tracking-in",
      "tracking-out", "bounce-top", "bounce-bottom", "tilt-in",
      "slide-out-top", "slide-out-bottom", "slide-out-left",
      "slide-out-right", "blink", "focus-in", "blur-out", "shadow-drop",
      "shadow-pop", "rotate-center" >>

\* the arms of get_easing_function's match, in order: <<pattern, struct>>
EasingArms ==
    <<
      <<"linear", "Linear">>, <<"ease-in", "EaseIn">>,
      <<"ease-out", "EaseOut">>, <<"ease-in-out", "EaseInOut">>,
      <<"ease-in-quad", "EaseInQuad">>, <<"ease-out-quad", "EaseOutQuad">>,
      <<"ease-in-out-quad", "EaseInOutQuad">>,
      <<"ease-in-cubic", "EaseInCubic">>,
      <<"ease-out-cubic", "EaseOutCubic">>,
      <<"ease-in-out-cubic", "EaseInOutCubic">>,
      <<"ease-in-back", "EaseInBack">>, <<"ease-out-back", "EaseOutBack">>,
      <<"ease-in-out-back", "EaseInOutBack">>,
      <<"ease-in-elastic", "EaseInElastic">>,
      <<"ease-out-elastic", "EaseOutElastic">>,
      <<"ease-in-out-elastic", "EaseInOutElastic">>,
      <<"ease-in-bounce", "EaseInBounce">>,
      <<"ease-out-bounce", "EaseOutBounce">>,
      <<"ease-in-out-bounce", "EaseInOutBounce">> >>

\* the names get_easing_function accepts
EasingNames == {EasingArms[i][1] : i \in 1..Len(EasingArms)}

\* a `match name { "pattern" => Ok(Box::new(S)), ..., _ => bail!(..) }`:
\* the first arm whose pattern is the string itself
MatchArms(arms, name) ==
    LET hits == {i \in 1..Len(arms) : arms[i][1] = name}
    IN  IF hits = {} THEN [ok |-> FALSE, value |-> "none"]
        ELSE [ok |-> TRUE,
              value |-> arms[CHOOSE i \in hits : \A j \in hits : i <= j][2]]

Mut_GetEffect_UnknownIsFadeIn(name) ==
    IF MatchArms(EffectArms, name).ok THEN MatchArms(EffectArms, name)
    ELSE [ok |-> TRUE, value |-> "FadeIn"]

GetEffect(name) == MatchArms(EffectArms, name)

GetEasingFunction(name) == MatchArms(EasingArms, name)

\* AnimationEngine::new: the engine's effect and easing
AnimationEngineNew == [effect |-> "FadeIn", easing |-> "Linear"]

\* AnimationEngine::with_effect: `?` returns the Err and self is dropped
WithEffect(engine, effect_name) ==
    LET r == GetEffect(effect_name)
    IN  IF r.ok THEN [ok |-> TRUE, engine |-> [engine EXCEPT !.effect = r.value]]
        ELSE [ok |-> FALSE, engine |-> "none"]

\* AnimationEngine::with_easing
WithEasing(engine, easing_name) ==
    LET r == GetEasingFunction(easing_name)
    IN  IF r.ok THEN [ok |-> TRUE, engine |-> [engine EXCEPT !.easing = r.value]]
        ELSE [ok |-> FALSE, engine |-> "none"]

EffectArgs == {"fade-in", "not-an-effect"}

EasingArgs == {"linear", "not-an-easing"}

ArgsSet ==
    [duration       : DurationArgs,
     color_palette  : PaletteArgs,
     color_gradient : GradientArgs,
     motion_effect  : EffectArgs,
     motion_ease    : EasingArgs,
     loop_animation : BOOLEAN,
     fps            : FpsArgs]

(***************************************************************************)
(* Input events (crossterm) and the listener's match on them.              *)
(***************************************************************************)
Events ==
    { [kind |-> "Key",    code |-> "q",   ctrl |-> FALSE],
      [kind |-> "Key",    code |-> "Esc", ctrl |-> FALSE],
      [kind |-> "Key",    code |-> "c",   ctrl |-> TRUE],
      [kind |-> "Key",    code |-> "c",   ctrl |-> FALSE],
      [kind |-> "Resize", code |-> "",    ctrl |-> FALSE] }

Mut_IsExitKey_AnyKey(e) == e.kind = "Key"

\* renderer.rs lines 47-58: the events on which the listener stores true
IsExitKey(e) ==
    /\ e.kind = "Key"
    /\ \/ e.code \in {"q", "Esc"}
       \/ e.code = "c" /\ e.ctrl

\* elapsed time of a tick's work, in ms, as read at renderer.rs:143
ElapsedValues == {0, 4, 9}

(***************************************************************************)
(* State.                                                                  *)
(***************************************************************************)
VARIABLES
    args,             \* PigletCli
    pc,               \* where the main task is
    outcome,          \* what run_piglet returned: "running" until it does
    duration_ms,      \* run_piglet's duration_ms
    art,              \* number of lines of the AsciiArt
    terminal,         \* the TerminalManager: [alive, original_state, width, height]
    tty,              \* the terminal device: [raw_mode, alternate_screen, cursor_hidden]
    screen,           \* the terminal device's size: [width, height]
    termlog,          \* calls of setup, its successes, failed cleanup calls, and
                      \* executions of cleanup's two steps
    iter,             \* render calls started so far; the current one
    should_exit,      \* should_exit[k]: the AtomicBool of render call k
    listeners,        \* render calls whose listener thread is alive
    events,           \* input events not yet read
    n_events,         \* input events produced so far
    timeline,         \* render's local Timeline (the harness's Timeline)
    linear_progress,  \* render's linear_progress of the tick
    line_i,           \* lines of the frame printed so far in the tick
    remaining,        \* render's remaining sleep, ms
    render_ret,       \* what the render call returned: "none" while running
    painted,          \* linear progress of the frames painted by the call
    tick_ops,         \* terminal operations attempted in the tick
    tick_sizes,       \* the size the tick's refresh_size read, and the sizes that
                      \* positioned its prints
    chunks,           \* sleep chunks of the tick, ms
    flag_pc,          \* pc when the call's flag became set: "none" if unset
    flag_ticks,       \* ticks with a terminal operation after the flag was set
    flag_chunks,      \* sleep chunks begun after the flag was set
    harness           \* Timeline harness: [calls, ret]

cfgvars == <<args, duration_ms, art>>

termvars == <<terminal, tty, termlog>>

inputvars == <<should_exit, listeners, events, n_events, screen>>

looplocals == <<timeline, linear_progress, line_i, remaining, render_ret>>

histvars == <<painted, tick_ops, tick_sizes, chunks, flag_pc, flag_ticks, flag_chunks>>

\* what only the main task writes
mainvars == <<pc, outcome, cfgvars, termvars, iter, looplocals, painted, tick_ops, tick_sizes, chunks, flag_ticks, flag_chunks>>

vars == <<args, pc, outcome, duration_ms, art, terminal, tty, screen, termlog, iter,
          should_exit, listeners, events, n_events, timeline, linear_progress,
          line_i, remaining, render_ret, painted, tick_ops, tick_sizes, chunks, flag_pc,
          flag_ticks, flag_chunks, harness>>

NoTimeline == TimelineNew(0, 0)

\* terminal::size(): the sizes the window takes
InitialSize == [width |-> 80, height |-> 24]

TerminalSizes == {InitialSize, [width |-> 40, height |-> 12]}

\* before the tick's refresh_size and its first print
NoTickSizes == [refreshed |-> [width |-> 0, height |-> 0], used |-> {}]

InitCommon ==
    /\ outcome = "running"
    /\ duration_ms = 0
    /\ art = 0
    /\ terminal = [alive |-> FALSE, original_state |-> FALSE, width |-> 0, height |-> 0]
    /\ screen = InitialSize
    /\ tty = [raw_mode |-> FALSE, alternate_screen |-> FALSE, cursor_hidden |-> FALSE]
    /\ termlog = [setup |-> 0, setup_ok |-> 0, cleanup_err |-> 0, show_leave |-> 0, disable_raw |-> 0]
    /\ iter = 0
    /\ should_exit = [k \in 1..MaxIter |-> FALSE]
    /\ listeners = {}
    /\ events = <<>>
    /\ n_events = 0
    /\ linear_progress = One
    /\ line_i = 0
    /\ remaining = 0
    /\ render_ret = "none"
    /\ painted = <<>>
    /\ tick_ops = <<>>
    /\ tick_sizes = NoTickSizes
    /\ chunks = <<>>
    /\ flag_pc = "none"
    /\ flag_ticks = {}
    /\ flag_chunks = 0

Init ==
    /\ args \in ArgsSet
    /\ pc = "parse_duration"
    /\ timeline = NoTimeline
    /\ harness = [calls |-> 0, ret |-> "none"]
    /\ InitCommon

(***************************************************************************)
(* run_piglet, up to the playback loop (src/src/main.rs lines 32-60).      *)
(***************************************************************************)
\* a `?` on an Err before the TerminalManager exists: run_piglet returns
Fail(err) ==
    /\ outcome' = err
    /\ pc' = "done"

\* line 38
RunParseDuration ==
    /\ pc = "parse_duration"
    /\ LET r == ParseDuration(args.duration)
       IN  IF r.ok
           THEN /\ duration_ms' = r.ms
                /\ pc' = "figlet"
                /\ UNCHANGED outcome
           ELSE /\ Fail("Err:duration")
                /\ UNCHANGED duration_ms
    /\ UNCHANGED <<args, art, termvars, iter, inputvars, looplocals, histvars, harness>>

\* lines 41-45: figlet is an external process; it fails or prints n lines
RunFigletRender ==
    /\ pc = "figlet"
    /\ \/ /\ Fail("Err:figlet")
          /\ UNCHANGED art
       \/ \E n \in 0..MaxLines :
             /\ art' = n
             /\ pc' = "with_palette"
             /\ UNCHANGED outcome
    /\ UNCHANGED <<args, duration_ms, termvars, iter, inputvars, looplocals, histvars, harness>>

Mut_Builder_ErrIgnored(at, r, err, next) ==
    /\ pc = at
    /\ pc' = next
    /\ UNCHANGED outcome
    /\ UNCHANGED <<cfgvars, termvars, iter, inputvars, looplocals, histvars, harness>>

\* one step of the builder chain of lines 48-56: on Err run_piglet returns
Builder(at, r, err, next) ==
    /\ pc = at
    /\ IF r.ok
       THEN pc' = next /\ UNCHANGED outcome
       ELSE Fail(err)
    /\ UNCHANGED <<cfgvars, termvars, iter, inputvars, looplocals, histvars, harness>>

\* line 49
RunWithPalette ==
    Builder("with_palette", WithPalette(args.color_palette), "Err:palette", "with_gradient")

\* line 50
RunWithGradient ==
    Builder("with_gradient", WithGradient(args.color_gradient), "Err:gradient", "with_effect")

\* line 54
RunWithEffect ==
    Builder("with_effect", WithEffect(AnimationEngineNew, args.motion_effect),
            "Err:effect", "with_easing")

\* line 55
RunWithEasing ==
    Builder("with_easing", WithEasing(AnimationEngineNew, args.motion_ease),
            "Err:easing", "terminal_new")

ConfigErrors == {"Err:duration", "Err:palette", "Err:gradient", "Err:effect", "Err:easing"}

(***************************************************************************)
(* TerminalManager (src/src/utils/terminal.rs).  Every crossterm call may  *)
(* fail; execute! with two commands succeeds or fails as one.              *)
(***************************************************************************)
\* cleanup(): show_ok and raw_ok are whether execute!(Show,
\* LeaveAlternateScreen) and disable_raw_mode() succeed
Cleanup(t, d, l, show_ok, raw_ok) ==
    IF ~t.original_state
    THEN [terminal |-> t, tty |-> d, termlog |-> l, ok |-> TRUE]
    ELSE IF ~show_ok
    THEN [terminal |-> t, tty |-> d,
          termlog |-> [l EXCEPT !.cleanup_err = @ + 1], ok |-> FALSE]
    ELSE IF ~raw_ok
    THEN [terminal |-> t,
          tty |-> [d EXCEPT !.cursor_hidden = FALSE, !.alternate_screen = FALSE],
          termlog |-> [l EXCEPT !.cleanup_err = @ + 1, !.show_leave = @ + 1],
          ok |-> FALSE]
    ELSE [terminal |-> [t EXCEPT !.original_state = FALSE],
          tty |-> [raw_mode |-> FALSE, alternate_screen |-> FALSE, cursor_hidden |-> FALSE],
          termlog |-> [l EXCEPT !.show_leave = @ + 1, !.disable_raw = @ + 1],
          ok |-> TRUE]

\* main.rs line 59: TerminalManager::new reads the terminal size
RunTerminalNew ==
    /\ pc = "terminal_new"
    /\ \/ /\ Fail("Err:io")
          /\ UNCHANGED terminal
       \/ /\ terminal' = [alive |-> TRUE, original_state |-> FALSE,
                         width |-> screen.width, height |-> screen.height]
          /\ pc' = "setup"
          /\ UNCHANGED outcome
    /\ UNCHANGED <<cfgvars, tty, termlog, iter, inputvars, looplocals, histvars, harness>>

\* main.rs line 60, terminal.rs line 25: enable_raw_mode()?
RunSetupRawMode ==
    /\ pc = "setup"
    /\ termlog' = [termlog EXCEPT !.setup = @ + 1]
    /\ \/ /\ tty' = [tty EXCEPT !.raw_mode = TRUE]
          /\ pc' = "setup_screen"
          /\ UNCHANGED outcome
       \/ /\ outcome' = "Err:io"
          /\ pc' = "drop"
          /\ UNCHANGED tty
    /\ UNCHANGED <<cfgvars, terminal, iter, inputvars, looplocals, histvars, harness>>

\* terminal.rs lines 26-28: execute!(EnterAlternateScreen, Hide)?, then
\* original_state = true
RunSetupScreen ==
    /\ pc = "setup_screen"
    /\ \/ /\ tty' = [tty EXCEPT !.alternate_screen = TRUE, !.cursor_hidden = TRUE]
          /\ terminal' = [terminal EXCEPT !.original_state = TRUE]
          /\ termlog' = [termlog EXCEPT !.setup_ok = @ + 1]
          /\ pc' = "loop"
          /\ UNCHANGED outcome
       \/ /\ outcome' = "Err:io"
          /\ pc' = "drop"
          /\ UNCHANGED <<tty, terminal, termlog>>
    /\ UNCHANGED <<cfgvars, iter, inputvars, looplocals, histvars, harness>>

\* main.rs line 72: terminal.cleanup()?, then Ok(())
RunCleanup ==
    /\ pc = "cleanup"
    /\ \E show_ok \in BOOLEAN, raw_ok \in BOOLEAN :
          LET c == Cleanup(terminal, tty, termlog, show_ok, raw_ok)
          IN  /\ terminal' = c.terminal
              /\ tty' = c.tty
              /\ termlog' = c.termlog
              /\ outcome' = IF c.ok THEN "Ok" ELSE "Err:io"
    /\ pc' = "drop"
    /\ UNCHANGED <<cfgvars, iter, inputvars, looplocals, histvars, harness>>

\* terminal.rs lines 87-91: run_piglet returns and its `terminal` is dropped;
\* main returns and the process, with its threads, ends
RunDrop ==
    /\ pc = "drop"
    /\ \E show_ok \in BOOLEAN, raw_ok \in BOOLEAN :
          LET c == Cleanup(terminal, tty, termlog, show_ok, raw_ok)
          IN  /\ terminal' = [c.terminal EXCEPT !.alive = FALSE]
              /\ tty' = c.tty
              /\ termlog' = c.termlog
    /\ pc' = "done"
    /\ listeners' = {}
    /\ UNCHANGED <<cfgvars, outcome, iter, should_exit, events, n_events, screen, looplocals, histvars, harness>>

(***************************************************************************)
(* The playback loop (main.rs lines 62-69), AnimationEngine::run           *)
(* (animation/mod.rs lines 46-57) and Renderer::render                     *)
(* (animation/renderer.rs lines 36-161).                                   *)
(***************************************************************************)
RenderPcs ==
    {"check_top", "check_eased", "check_pre_paint", "clear", "refresh_size",
     "print", "check_post_paint", "is_complete", "advance", "sleep_check", "sleep"}

Mut_RunRenderStart_KeepsTimeline ==
    /\ pc = "loop"
    /\ iter < MaxIter
    /\ iter' = iter + 1
    /\ timeline' = IF iter = 0 THEN TimelineStart(TimelineNew(duration_ms, args.fps))
                   ELSE timeline
    /\ should_exit' = [should_exit EXCEPT ![iter + 1] = FALSE]
    /\ listeners' = listeners \cup {iter + 1}
    /\ linear_progress' = One
    /\ line_i' = 0
    /\ remaining' = 0
    /\ render_ret' = "none"
    /\ painted' = <<>>
    /\ tick_ops' = <<>>
    /\ tick_sizes' = NoTickSizes
    /\ chunks' = <<>>
    /\ flag_pc' = "none"
    /\ flag_ticks' = {}
    /\ flag_chunks' = 0
    /\ pc' = "check_top"
    /\ UNCHANGED <<cfgvars, outcome, termvars, events, n_events, screen, harness>>

\* main.rs line 64, mod.rs lines 47-56, renderer.rs lines 37-65: a new
\* Renderer, a new started Timeline, a new flag and a new listener thread
RunRenderStart ==
    /\ pc = "loop"
    /\ iter < MaxIter
    /\ iter' = iter + 1
    /\ timeline' = TimelineStart(TimelineNew(duration_ms, args.fps))
    /\ should_exit' = [should_exit EXCEPT ![iter + 1] = FALSE]
    /\ listeners' = listeners \cup {iter + 1}
    /\ linear_progress' = One
    /\ line_i' = 0
    /\ remaining' = 0
    /\ render_ret' = "none"
    /\ painted' = <<>>
    /\ tick_ops' = <<>>
    /\ tick_sizes' = NoTickSizes
    /\ chunks' = <<>>
    /\ flag_pc' = "none"
    /\ flag_ticks' = {}
    /\ flag_chunks' = 0
    /\ pc' = "check_top"
    /\ UNCHANGED <<cfgvars, outcome, termvars, events, n_events, screen, harness>>

Mut_ExitCheck_Ignored(at, next) ==
    /\ pc = at
    /\ pc' = next
    /\ UNCHANGED render_ret

\* `if should_exit.load(Ordering::Relaxed) { return Ok(true); }`
ExitCheck(at, next) ==
    /\ pc = at
    /\ IF should_exit[iter]
       THEN /\ render_ret' = "Cancelled"
            /\ pc' = "render_return"
       ELSE /\ pc' = next
            /\ UNCHANGED render_ret

\* lines 69-77: the check at the top of the tick, then the tick's progress
RenderCheckTop ==
    /\ ExitCheck("check_top", "check_eased")
    /\ IF should_exit[iter]
       THEN UNCHANGED <<linear_progress, line_i, tick_ops, tick_sizes>>
       ELSE /\ linear_progress' = Progress(timeline)
            /\ line_i' = 0
            /\ tick_ops' = <<>>
            /\ tick_sizes' = NoTickSizes
    /\ UNCHANGED <<cfgvars, outcome, termvars, iter, inputvars, timeline, remaining,
                   painted, chunks, flag_pc, flag_ticks, flag_chunks, harness>>

\* lines 80-92: the check after easing, then the effect and the colours
RenderCheckEased ==
    /\ ExitCheck("check_eased", "check_pre_paint")
    /\ UNCHANGED <<cfgvars, outcome, termvars, iter, inputvars, timeline,
                   linear_progress, line_i, remaining, histvars, harness>>

\* lines 95-97: the check before the terminal operations
RenderCheckPrePaint ==
    /\ ExitCheck("check_pre_paint", "clear")
    /\ UNCHANGED <<cfgvars, outcome, termvars, iter, inputvars, timeline,
                   linear_progress, line_i, remaining, histvars, harness>>

Mut_TermOp_ErrorIgnored(at, name, next) ==
    /\ pc = at
    /\ tick_ops' = Append(tick_ops, name)
    /\ flag_ticks' = IF should_exit[iter]
                     THEN flag_ticks \cup {timeline.current_frame}
                     ELSE flag_ticks
    /\ pc' = next
    /\ \/ UNCHANGED render_ret
       \/ render_ret' = "Err"

\* a terminal operation followed by `?`: Ok, or render returns the Err
TermOp(at, name, next) ==
    /\ pc = at
    /\ tick_ops' = Append(tick_ops, name)
    /\ flag_ticks' = IF should_exit[iter]
                     THEN flag_ticks \cup {timeline.current_frame}
                     ELSE flag_ticks
    /\ \/ /\ pc' = next
          /\ UNCHANGED render_ret
       \/ /\ render_ret' = "Err"
          /\ pc' = "render_return"

\* line 100
RenderClear ==
    /\ TermOp("clear", "clear", "refresh_size")
    /\ UNCHANGED <<cfgvars, outcome, termvars, iter, inputvars, timeline,
                   linear_progress, line_i, remaining, painted, tick_sizes, chunks,
                   flag_pc, flag_chunks, harness>>

Mut_RenderRefreshSize_KeepsOldSize ==
    /\ TermOp("refresh_size", "refresh_size", "print")
    /\ tick_sizes' = IF pc' = "print"
                     THEN [tick_sizes EXCEPT !.refreshed = screen]
                     ELSE tick_sizes
    /\ UNCHANGED <<cfgvars, outcome, termvars, iter, inputvars, timeline,
                   linear_progress, line_i, remaining, painted, chunks, flag_pc,
                   flag_chunks, harness>>

\* line 101, terminal.rs lines 54-59: terminal::size()?, then the manager's
\* width and height are the size read
RenderRefreshSize ==
    /\ TermOp("refresh_size", "refresh_size", "print")
    /\ IF pc' = "print"
       THEN /\ terminal' = [terminal EXCEPT !.width = screen.width,
                                            !.height = screen.height]
            /\ tick_sizes' = [tick_sizes EXCEPT !.refreshed = screen]
       ELSE UNCHANGED <<terminal, tick_sizes>>
    /\ UNCHANGED <<cfgvars, outcome, tty, termlog, iter, inputvars, timeline,
                   linear_progress, line_i, remaining, painted, chunks, flag_pc,
                   flag_chunks, harness>>

\* lines 104-128: one print_at of print_centered's loop (terminal.rs lines
\* 76-81) or of the loop of lines 122-127; the frame has the art's lines,
\* all of them in the window (Paint has the lines that line 124 skips), and
\* both loops position a line with the manager's width and height
\* (terminal.rs lines 50-52, 72-73)
RenderPrintLine ==
    /\ line_i < art
    /\ TermOp("print", "print_at", "print")
    /\ line_i' = line_i + 1
    /\ tick_sizes' = [tick_sizes EXCEPT
                         !.used = @ \cup {[width |-> terminal.width,
                                           height |-> terminal.height]}]
    /\ UNCHANGED <<cfgvars, outcome, termvars, iter, inputvars, timeline,
                   linear_progress, remaining, painted, chunks, flag_pc,
                   flag_chunks, harness>>

\* the loop of print_at calls is over: the frame is painted
RenderPrintDone ==
    /\ pc = "print"
    /\ line_i = art
    /\ painted' = Append(painted, linear_progress)
    /\ pc' = "check_post_paint"
    /\ UNCHANGED <<cfgvars, outcome, termvars, iter, inputvars, looplocals,
                   tick_ops, tick_sizes, chunks, flag_pc, flag_ticks, flag_chunks, harness>>

\* lines 131-133: the check after the paint
RenderCheckPostPaint ==
    /\ ExitCheck("check_post_paint", "is_complete")
    /\ UNCHANGED <<cfgvars, outcome, termvars, iter, inputvars, timeline,
                   linear_progress, line_i, remaining, histvars, harness>>

\* lines 136-138
RenderCheckComplete ==
    /\ pc = "is_complete"
    /\ IF IsComplete(timeline)
       THEN /\ render_ret' = "Completed"
            /\ pc' = "render_return"
       ELSE /\ pc' = "advance"
            /\ UNCHANGED render_ret
    /\ UNCHANGED <<cfgvars, outcome, termvars, iter, inputvars, timeline,
                   linear_progress, line_i, remaining, histvars, harness>>

\* lines 141-149: next_frame(), frame_duration() (which panics for fps 0:
\* the panic unwinds through run_piglet) and the tick's elapsed time
RenderAdvance ==
    /\ pc = "advance"
    /\ timeline' = NextFrame(timeline).t
    /\ chunks' = <<>>
    /\ IF timeline.fps = 0
       THEN /\ outcome' = "Panic"
            /\ pc' = "drop"
            /\ UNCHANGED remaining
       ELSE /\ UNCHANGED outcome
            /\ \E elapsed \in ElapsedValues :
                  IF elapsed < FrameDuration(timeline)
                  THEN /\ remaining' = FrameDuration(timeline) - elapsed
                       /\ pc' = "sleep_check"
                  ELSE /\ pc' = "check_top"
                       /\ UNCHANGED remaining
    /\ UNCHANGED <<cfgvars, termvars, iter, inputvars, linear_progress, line_i,
                   render_ret, painted, tick_ops, tick_sizes, flag_pc, flag_ticks,
                   flag_chunks, harness>>

\* lines 151-154: the check before a sleep chunk
RenderSleepCheck ==
    /\ ExitCheck("sleep_check", "sleep")
    /\ UNCHANGED <<cfgvars, outcome, termvars, iter, inputvars, timeline,
                   linear_progress, line_i, remaining, histvars, harness>>

Mut_SleepTime_Whole(rem) == rem

\* line 155: remaining.min(chunk_duration)
SleepTime(rem) == IF rem < ChunkMs THEN rem ELSE ChunkMs

\* lines 155-157: one sleep chunk
RenderSleep ==
    /\ pc = "sleep"
    /\ chunks' = Append(chunks, SleepTime(remaining))
    /\ flag_chunks' = IF should_exit[iter] THEN flag_chunks + 1 ELSE flag_chunks
    /\ remaining' = remaining - SleepTime(remaining)
    /\ pc' = IF remaining - SleepTime(remaining) > 0 THEN "sleep_check" ELSE "check_top"
    /\ UNCHANGED <<cfgvars, outcome, termvars, iter, inputvars, timeline,
                   linear_progress, line_i, render_ret, painted, tick_ops, tick_sizes,
                   flag_pc, flag_ticks, harness>>

\* render has returned; mod.rs line 56 and main.rs lines 64-69: `?` returns
\* an Err, the bool of an Ok is dropped, and the loop goes on if
\* loop_animation
RunRenderReturn ==
    /\ pc = "render_return"
    /\ IF render_ret = "Err"
       THEN /\ outcome' = "Err:io"
            /\ pc' = "drop"
       ELSE /\ pc' = IF args.loop_animation THEN "loop" ELSE "cleanup"
            /\ UNCHANGED outcome
    /\ UNCHANGED <<cfgvars, termvars, iter, inputvars, looplocals, histvars, harness>>

(***************************************************************************)
(* The listener thread of render call l (renderer.rs lines 44-65) and the  *)
(* user.  A poll that times out changes nothing.                           *)
(***************************************************************************)
\* an input event arrives, a key press or the notice of a resize, while a
\* listener is alive and the playback loop has not been left
UserEvent ==
    /\ listeners # {}
    /\ pc \notin {"cleanup", "drop", "done"}
    /\ n_events < MaxEvents
    /\ events = <<>>
    /\ \E e \in Events : events' = Append(events, e)
    /\ n_events' = n_events + 1
    /\ UNCHANGED <<mainvars, should_exit, listeners, screen, flag_pc, harness>>

\* lines 46-63: poll, read, match, and the test of the thread's own flag
ListenerRead(l) ==
    /\ l \in listeners
    /\ events # <<>>
    /\ events' = Tail(events)
    /\ IF IsExitKey(Head(events))
       THEN /\ should_exit' = [should_exit EXCEPT ![l] = TRUE]
            /\ listeners' = listeners \ {l}
            /\ flag_pc' = IF l = iter /\ flag_pc = "none" THEN pc ELSE flag_pc
       ELSE /\ listeners' = IF should_exit[l] THEN listeners \ {l} ELSE listeners
            /\ UNCHANGED <<should_exit, flag_pc>>
    /\ UNCHANGED <<mainvars, n_events, screen, harness>>

Next ==
    \/ RunParseDuration
    \/ RunFigletRender
    \/ RunWithPalette
    \/ RunWithGradient
    \/ RunWithEffect
    \/ RunWithEasing
    \/ RunTerminalNew
    \/ RunSetupRawMode
    \/ RunSetupScreen
    \/ RunRenderStart
    \/ RenderCheckTop
    \/ RenderCheckEased
    \/ RenderCheckPrePaint
    \/ RenderClear
    \/ RenderRefreshSize
    \/ RenderPrintLine
    \/ RenderPrintDone
    \/ RenderCheckPostPaint
    \/ RenderCheckComplete
    \/ RenderAdvance
    \/ RenderSleepCheck
    \/ RenderSleep
    \/ RunRenderReturn
    \/ RunCleanup
    \/ RunDrop
    \/ UserEvent
    \/ \E l \in 1..MaxIter : ListenerRead(l)

Spec == Init /\ [][Next]_vars

(***************************************************************************)
(* The program run with one command line in a window whose size changes.   *)
(***************************************************************************)
\* the window is resized while the process runs: terminal::size() returns
\* the new size from then on
WindowResize ==
    /\ pc # "done"
    /\ screen' \in TerminalSizes \ {screen}
    /\ UNCHANGED <<mainvars, should_exit, listeners, events, n_events, flag_pc, harness>>

\* piglet TEXT -d 16ms --fps 125, with and without --loop
PaintArgs ==
    {a \in ArgsSet :
        /\ a.duration = [digits |-> 16, unit |-> "ms"]
        /\ a.fps = 125
        /\ ~a.color_palette.some
        /\ ~a.color_gradient.some
        /\ a.motion_effect = "fade-in"
        /\ a.motion_ease = "linear"}

PaintInit ==
    /\ args \in PaintArgs
    /\ pc = "parse_duration"
    /\ timeline = NoTimeline
    /\ harness = [calls |-> 0, ret |-> "none"]
    /\ InitCommon

PaintNext == Next \/ WindowResize

PaintSpec == PaintInit /\ [][PaintNext]_vars

(***************************************************************************)
(* A harness for Timeline alone: any sequence of start(), reset() and      *)
(* next_frame() on a Timeline::new(duration_ms, fps).                      *)
(***************************************************************************)
HarnessDurations == (0..MaxDurationMs) \cup {1000, 1100}

HarnessFps == {1, 10, 30, 200}

HarnessInit ==
    /\ args = CHOOSE a \in ArgsSet : TRUE
    /\ pc = "harness"
    /\ \E d \in HarnessDurations, f \in HarnessFps : timeline = TimelineNew(d, f)
    /\ harness = [calls |-> 0, ret |-> "none"]
    /\ InitCommon

HarnessRest ==
    UNCHANGED <<args, pc, outcome, duration_ms, art, termvars, iter, inputvars,
                linear_progress, line_i, remaining, render_ret, histvars>>

HarnessStart ==
    /\ pc = "harness"
    /\ timeline' = TimelineStart(timeline)
    /\ harness' = [calls |-> 0, ret |-> "none"]
    /\ HarnessRest

HarnessReset ==
    /\ pc = "harness"
    /\ timeline' = TimelineReset(timeline)
    /\ harness' = [calls |-> 0, ret |-> "none"]
    /\ HarnessRest

HarnessNextFrame ==
    /\ pc = "harness"
    /\ harness.calls < timeline.total_frames + MaxExtraCalls
    /\ timeline' = NextFrame(timeline).t
    /\ harness' = [calls |-> harness.calls + 1, ret |-> NextFrame(timeline).ret]
    /\ HarnessRest

HarnessNext == HarnessStart \/ HarnessReset \/ HarnessNextFrame

TimelineSpec == HarnessInit /\ [][HarnessNext]_vars

(***************************************************************************)
(* A harness for the library's pure functions: each action is one call,    *)
(* with its arguments and its result kept in `harness`.                    *)
(***************************************************************************)
(***************************************************************************)
(* AsciiArt (src/src/utils/ascii.rs).  A String is the sequence of its     *)
(* characters, each written as a string naming one character; the arts     *)
(* here are ASCII, so the byte length width is measured in is the number   *)
(* of characters.                                                          *)
(***************************************************************************)
IsWhitespace(c) == c \in {" ", "\t", "\n"}

\* str::lines: the pieces ended by a newline, and a last piece that is not
\* empty
RECURSIVE Lines(_)
Lines(text) ==
    IF text = <<>> THEN <<>>
    ELSE LET ends == {i \in 1..Len(text) : text[i] = "\n"}
         IN  IF ends = {} THEN <<text>>
             ELSE LET i == CHOOSE e \in ends : \A o \in ends : e <= o
                  IN  <<SubSeq(text, 1, i - 1)>> \o Lines(SubSeq(text, i + 1, Len(text)))

\* [String]::join
RECURSIVE Join(_, _)
Join(lines, sep) ==
    IF lines = <<>> THEN <<>>
    ELSE IF Len(lines) = 1 THEN lines[1]
    ELSE lines[1] \o sep \o Join(Tail(lines), sep)

\* str::repeat
RECURSIVE Repeat(_, _)
Repeat(s, n) == IF n = 0 THEN <<>> ELSE s \o Repeat(s, n - 1)

AsciiArtNew(text) ==
    LET lines == Lines(text)
    IN  [lines  |-> lines,
         width  |-> IF lines = <<>> THEN 0
                    ELSE CHOOSE w \in {Len(lines[i]) : i \in 1..Len(lines)} :
                            \A i \in 1..Len(lines) : Len(lines[i]) <= w,
         height |-> Len(lines)]

Render(ascii_art) == Join(ascii_art.lines, <<"\n">>)

\* the non-whitespace characters, row by row, as <<x, y, ch>> counted from 0
RECURSIVE CharPositions(_)
CharPositions(ascii_art) ==
    IF ascii_art.lines = <<>> THEN <<>>
    ELSE LET y    == Len(ascii_art.lines)
             line == ascii_art.lines[y]
             cols == SelectSeq([x \in 1..Len(line) |-> x], LAMBDA x : ~IsWhitespace(line[x]))
         IN  CharPositions([ascii_art EXCEPT !.lines = SubSeq(ascii_art.lines, 1, y - 1)])
               \o [k \in 1..Len(cols) |-> <<cols[k] - 1, y - 1, line[cols[k]]>>]

CharCount(ascii_art) ==
    LET RECURSIVE Sum(_)
        Sum(y) == IF y = 0 THEN 0
                  ELSE Sum(y - 1)
                         + Cardinality({x \in 1..Len(ascii_art.lines[y]) : ~IsWhitespace(ascii_art.lines[y][x])})
    IN  Sum(Len(ascii_art.lines))

\* opacity is a whole number of 1/PositionUnit, so opacity * 9.0 is exact;
\* the fade character '\u{b7}' is written "U+00B7"
ApplyFade(ascii_art, opacity) ==
    IF opacity >= PositionUnit THEN Render(ascii_art)
    ELSE IF opacity <= 0 THEN Repeat(Repeat(<<" ">>, ascii_art.width), ascii_art.height)
    ELSE LET fade_chars == <<" ", ".", "U+00B7", "-", "~", "=", "+", "*", "#", "@">>
             index      == (opacity * (Len(fade_chars) - 1)) \div PositionUnit
             fade_char  == fade_chars[index + 1]
         IN  Join([y \in 1..Len(ascii_art.lines) |->
                     [x \in 1..Len(ascii_art.lines[y]) |->
                        IF IsWhitespace(ascii_art.lines[y][x]) THEN ascii_art.lines[y][x]
                        ELSE fade_char]],
                  <<"\n">>)

\* A scale factor is a whole number v of 1/ScaleUnit, f64::NAN or f64::MAX.
\* For these 1.0 / factor, `as usize` and the comparison with 0.01 give what
\* the integer arithmetic below gives.
ScaleUnit == 1024

Factor(v) == [kind |-> "num", v |-> v]

NaN == [kind |-> "nan", v |-> 0]

F64Max == [kind |-> "max", v |-> 0]

\* Iterator::step_by: the elements at 0, step, 2 * step, ...
StepBy(s, step) ==
    [k \in 1..((Len(s) + step - 1) \div step) |-> s[(k - 1) * step + 1]]

\* (1.0 / factor) as usize; the cast of NaN is 0
ScaleStride(factor) ==
    IF factor.kind = "nan" THEN 0 ELSE ScaleUnit \div factor.v

Mut_Scale_AlwaysClone(ascii_art, factor) == [panic |-> FALSE, art |-> ascii_art]

\* panic: step_by(0) asserts step != 0; repeating a character or a line
\* usize::MAX times exceeds every allocation
Scale(ascii_art, factor) ==
    IF factor.kind = "num" /\ factor.v <= 0
    THEN [panic |-> FALSE, art |-> AsciiArtNew(<<>>)]
    ELSE IF factor.kind = "num"
            /\ 100 * (IF factor.v >= ScaleUnit THEN factor.v - ScaleUnit
                      ELSE ScaleUnit - factor.v) < ScaleUnit
    THEN [panic |-> FALSE, art |-> ascii_art]
    ELSE IF factor.kind = "max"
    THEN [panic |-> ascii_art.lines # <<>>, art |-> AsciiArtNew(<<>>)]
    ELSE IF factor.kind = "num" /\ factor.v > ScaleUnit
    THEN LET scale_factor == factor.v \div ScaleUnit
             Wide(line)   == Join([x \in 1..Len(line) |-> Repeat(<<line[x]>>, scale_factor)], <<>>)
             lines        == Join([y \in 1..Len(ascii_art.lines) |->
                                      Repeat(<<Wide(ascii_art.lines[y])>>, scale_factor)], <<>>)
         IN  [panic |-> FALSE, art |-> AsciiArtNew(Join(lines, <<"\n">>))]
    ELSE LET step == ScaleStride(factor)
         IN  IF step = 0 THEN [panic |-> TRUE, art |-> AsciiArtNew(<<>>)]
             ELSE [panic |-> FALSE,
                   art |-> AsciiArtNew(Join([y \in 1..Len(StepBy(ascii_art.lines, step)) |->
                                               StepBy(StepBy(ascii_art.lines, step)[y], step)],
                                            <<"\n">>))]

\* x / (d as f64) for an integer-valued x and 0 < d < 2^15, as F64DivThousand
F64DivNat(x, d) ==
    IF x.m = <<>> THEN F64Zero
    ELSE LET q == BigDivSmall(BigShiftLimbsLeft(x.m, 5), d)
         IN  F64Round(q.q, x.e - 5 * LimbBits, q.r # 0)

\* `x as usize` for 0 <= x < 2^31: the integer part
F64FloorToNat(x) ==
    IF x.m = <<>> THEN 0
    ELSE IF x.e >= 0 THEN BigToNat(x.m) * 2^(x.e)
    ELSE BigToNat(BigShiftRight(x.m, 0 - x.e).q)

\* the double a progress value <<num, den>> stands for
ProgressF64(p) == F64DivNat(F64FromNat(p[1]), p[2])

\* Linear::ease
LinearEase(t) == t

Mut_TypewriterApply_ShowsAll(ascii_art, progress) == Render(ascii_art)

\* Typewriter::apply (src/src/animation/effects.rs): the text of the result
TypewriterApply(ascii_art, progress) ==
    LET total_chars   == CharCount(ascii_art)
        visible_chars == F64FloorToNat(F64MulNat(ProgressF64(progress), total_chars))
        positions     == CharPositions(ascii_art)
        lines         == ascii_art.lines
        blank_lines   == [y \in 1..Len(lines) |->
                            [x \in 1..Len(lines[y]) |->
                               IF IsWhitespace(lines[y][x]) THEN lines[y][x] ELSE " "]]
        RECURSIVE Reveal(_, _)
        Reveal(result_lines, i) ==
            IF i > Len(positions) THEN result_lines
            ELSE LET x == positions[i][1]
                     y == positions[i][2]
                 IN  IF i - 1 < visible_chars /\ y < Len(result_lines)
                        /\ x < Len(result_lines[y + 1])
                     THEN Reveal([result_lines EXCEPT ![y + 1][x + 1] = positions[i][3]], i + 1)
                     ELSE Reveal(result_lines, i + 1)
    IN  Join(Reveal(blank_lines, 1), <<"\n">>)

(***************************************************************************)
(* Painting a frame (animation/renderer.rs lines 103-128,                  *)
(* utils/terminal.rs, utils/ansi.rs).  A text is a sequence of characters  *)
(* as above; the character U+001B is written Esc.  The texts here are      *)
(* ASCII, so that a byte length is a number of characters.                 *)
(***************************************************************************)
Esc == "ESC"

\* char::is_ascii_alphabetic
IsAsciiAlphabetic(c) ==
    c \in {"a", "b", "c", "d", "e", "f", "g", "h", "i", "j", "k", "l", "m",
           "n", "o", "p", "q", "r", "s", "t", "u", "v", "w", "x", "y", "z",
           "A", "B", "C", "D", "E", "F", "G", "H", "I", "J", "K", "L", "M",
           "N", "O", "P", "Q", "R", "S", "T", "U", "V", "W", "X", "Y", "Z"}

\* strip_ansi: an Esc is dropped; when a '[' follows it, so is everything
\* up to and including the next ASCII letter
StripAnsi(text) ==
    LET RECURSIVE Strip(_, _)
        Strip(i, in_sequence) ==
            IF i > Len(text) THEN <<>>
            ELSE IF in_sequence
            THEN Strip(i + 1, ~IsAsciiAlphabetic(text[i]))
            ELSE IF text[i] = Esc
            THEN IF i + 1 <= Len(text) /\ text[i + 1] = "["
                 THEN Strip(i + 2, TRUE)
                 ELSE Strip(i + 1, FALSE)
            ELSE <<text[i]>> \o Strip(i + 1, FALSE)
    IN  Strip(1, FALSE)

\* visual_width
VisualWidth(text) == Len(StripAnsi(text))

\* i32::MAX; i32::MIN is -I32Max - 1
I32Max == 2147483647

\* u16::MAX + 1
U16Modulus == 65536

\* `a + b` on i32: when the sum is not an i32, a build with overflow checks
\* panics and a build without them wraps
I32Add(a, b, overflow_checks) ==
    IF b > 0 /\ a > I32Max - b
    THEN [panic |-> overflow_checks,
          value |-> (a - I32Max - 1) + (b - I32Max - 1)]
    ELSE IF b < 0 /\ a < (0 - I32Max - 1) - b
    THEN [panic |-> overflow_checks,
          value |-> (a + I32Max + 1) + (b + I32Max + 1)]
    ELSE [panic |-> FALSE, value |-> a + b]

\* `a / 2` on i32: the quotient is rounded toward zero
I32Half(a) == IF a >= 0 THEN a \div 2 ELSE 0 - ((0 - a) \div 2)

\* `v as u16` of an integer: the low 16 bits
AsU16(v) == v % U16Modulus

\* u16::saturating_sub and u16::saturating_add
SaturatingSub(a, b) == IF a > b THEN a - b ELSE 0

SaturatingAdd(a, b) == IF a + b >= U16Modulus THEN U16Modulus - 1 ELSE a + b

\* Iterator::max of the widths of the lines, .unwrap_or(0)
MaxWidth(lines, Width(_)) ==
    IF lines = <<>> THEN 0
    ELSE LET ws == {Width(lines[i]) : i \in 1..Len(lines)}
         IN  CHOOSE w \in ws : \A v \in ws : v <= w

\* a print_at call
PrintAt(x, y, text) == [x |-> x, y |-> y, text |-> text]

\* TerminalManager::print_centered: its print_at calls, with byte lengths
PrintCentered(size, text) ==
    LET lines     == Lines(text)
        max_width == AsU16(MaxWidth(lines, Len))
        height    == AsU16(Len(lines))
        start_x   == SaturatingSub(size.width, max_width) \div 2
        start_y   == SaturatingSub(size.height, height) \div 2
    IN  [i \in 1..Len(lines) |->
           PrintAt(start_x + SaturatingSub(max_width, AsU16(Len(lines[i]))) \div 2,
                   start_y + AsU16(i - 1),
                   lines[i])]

\* EffectResult::new and the builders with_opacity, with_offset, with_scale;
\* opacity in 1/8 and scale in 1/1024
EffectResultNew(text) ==
    [text |-> text, opacity |-> PositionUnit, offset_x |-> 0, offset_y |-> 0,
     scale |-> ScaleUnit]

\* renderer.rs lines 103-128: the print_at calls of a frame in a terminal of
\* the size refresh_size stored, or a panic; an Err of a print_at ends the
\* calls early (TermOp)
Paint(size, effect_result, colored_text, overflow_checks) ==
    IF effect_result.offset_x = 0 /\ effect_result.offset_y = 0
    THEN [panic |-> FALSE, prints |-> PrintCentered(size, colored_text)]
    ELSE LET lines       == Lines(colored_text)
             text_height == Len(lines)
             text_width  == MaxWidth(lines, VisualWidth)
             base_x      == I32Half(size.width - text_width)
             base_y      == I32Half(size.height - text_height)
             sum_x       == I32Add(base_x, effect_result.offset_x, overflow_checks)
             sum_y       == I32Add(base_y, effect_result.offset_y, overflow_checks)
             x           == AsU16(IF sum_x.value > 0 THEN sum_x.value ELSE 0)
             y           == AsU16(IF sum_y.value > 0 THEN sum_y.value ELSE 0)
             line_y(i)   == SaturatingAdd(y, AsU16(i))
             shown       == SelectSeq([i \in 1..Len(lines) |-> i - 1],
                                      LAMBDA i : line_y(i) < size.height)
         IN  IF sum_x.panic \/ sum_y.panic
             THEN [panic |-> TRUE, prints |-> <<>>]
             ELSE [panic |-> FALSE,
                   prints |-> [k \in 1..Len(shown) |->
                                 PrintAt(x, line_y(shown[k]), lines[shown[k] + 1])]]

(***************************************************************************)
(* ColorEngine (color/mod.rs), colour application (color/apply.rs) and     *)
(* Renderer::apply_colors (animation/renderer.rs lines 163-196).  A        *)
(* progress is written, like a gradient position, as a whole number of     *)
(* 1/8.                                                                    *)
(***************************************************************************)
\* ColorEngine::new
ColorEngineNew == [mode |-> [kind |-> "None"]]

\* ColorEngine::with_palette: `?` returns the Err and self is dropped
ColorEngineWithPalette(engine, palette) ==
    IF palette.some /\ palette.colors # <<>>
    THEN LET r == PaletteFromStrings(palette.colors)
         IN  IF r.ok
             THEN [ok |-> TRUE,
                   engine |-> [engine EXCEPT
                                 !.mode = [kind |-> "Palette", colors |-> r.colors]]]
             ELSE [ok |-> FALSE, engine |-> "none"]
    ELSE [ok |-> TRUE, engine |-> engine]

Mut_ColorEngineWithGradient_KeepsPalette(engine, gradient) ==
    IF gradient.some /\ engine.mode.kind # "Palette"
    THEN LET r == GradientParse(gradient)
         IN  IF r.ok
             THEN [ok |-> TRUE,
                   engine |-> [engine EXCEPT
                                 !.mode = [kind |-> "Gradient", stops |-> r.stops]]]
             ELSE [ok |-> FALSE, engine |-> "none"]
    ELSE [ok |-> TRUE, engine |-> engine]

\* ColorEngine::with_gradient
ColorEngineWithGradient(engine, gradient) ==
    IF gradient.some
    THEN LET r == GradientParse(gradient)
         IN  IF r.ok
             THEN [ok |-> TRUE,
                   engine |-> [engine EXCEPT
                                 !.mode = [kind |-> "Gradient", stops |-> r.stops]]]
             ELSE [ok |-> FALSE, engine |-> "none"]
    ELSE [ok |-> TRUE, engine |-> engine]

\* ColorEngine::has_colors
HasColors(engine) == engine.mode.kind # "None"

\* Gradient::colors: sample i is taken at t = i / (steps - 1).max(1); the
\* quotient is a whole number of 1/8 when steps - 1 divides 8
GradientColors(stops, steps) ==
    [i \in 1..steps |->
       ColorAt(stops, ((i - 1) * PositionUnit)
                         \div (IF steps - 1 > 1 THEN steps - 1 ELSE 1))]

\* the step counts for which GradientColors is exact
ExactSteps(steps) == IF steps <= 1 THEN TRUE ELSE PositionUnit % (steps - 1) = 0

\* ColorEngine::get_colors
GetColors(engine, steps) ==
    CASE engine.mode.kind = "None"     -> <<>>
      [] engine.mode.kind = "Palette"  ->
            [i \in 1..steps |-> GetColor(engine.mode.colors, i - 1)]
      [] engine.mode.kind = "Gradient" -> GradientColors(engine.mode.stops, steps)

\* ColorEngine::color_at, for t >= 0: an Option<Color>
ColorEngineColorAt(engine, t) ==
    CASE engine.mode.kind = "None"     -> [some |-> FALSE, color |-> "none"]
      [] engine.mode.kind = "Palette"  ->
            [some  |-> TRUE,
             color |-> GetColor(engine.mode.colors,
                                (t * Len(engine.mode.colors)) \div PositionUnit)]
      [] engine.mode.kind = "Gradient" ->
            [some |-> TRUE, color |-> ColorAt(engine.mode.stops, t)]

\* the decimal digits of a u8
RECURSIVE Decimal(_)
Decimal(n) ==
    LET digit == <<"0", "1", "2", "3", "4", "5", "6", "7", "8", "9">>[(n % 10) + 1]
    IN  IF n < 10 THEN <<digit>> ELSE Decimal(n \div 10) \o <<digit>>

\* apply_color_to_char: crossterm writes the character between the
\* sequence that sets an RGB foreground and the one that resets it
ApplyColorToChar(ch, color) ==
    <<Esc, "[", "3", "8", ";", "2", ";">> \o Decimal(color.r) \o <<";">>
      \o Decimal(color.g) \o <<";">> \o Decimal(color.b)
      \o <<"m", ch, Esc, "[", "3", "9", "m">>

\* apply_color_to_line
ApplyColorToLine(line, colors) ==
    IF colors = <<>> THEN line
    ELSE Join([i \in 1..Len(line) |->
                 IF IsWhitespace(line[i]) THEN <<line[i]>>
                 ELSE ApplyColorToChar(line[i], colors[((i - 1) % Len(colors)) + 1])],
              <<>>)

\* text.chars().filter(|c| !c.is_whitespace()).count()
NonWhitespaceCount(text) == Len(SelectSeq(text, LAMBDA c : ~IsWhitespace(c)))

\* apply_gradient_to_text
ApplyGradientToText(text, colors) ==
    LET lines       == Lines(text)
        total_chars == Len(Join(lines, <<>>))
        \* char_index when column x of line y is reached
        char_index(y, x) ==
            NonWhitespaceCount(Join(SubSeq(lines, 1, y - 1), <<>>))
              + NonWhitespaceCount(SubSeq(lines[y], 1, x - 1))
        color_index(y, x) ==
            LET i == (char_index(y, x) * Len(colors)) \div total_chars
            IN  IF i < Len(colors) - 1 THEN i ELSE Len(colors) - 1
    IN  IF total_chars = 0 \/ colors = <<>> THEN text
        ELSE Join([y \in 1..Len(lines) |->
                     Join([x \in 1..Len(lines[y]) |->
                             IF IsWhitespace(lines[y][x]) THEN <<lines[y][x]>>
                             ELSE ApplyColorToChar(lines[y][x],
                                                   colors[color_index(y, x) + 1])],
                          <<>>)],
                  <<"\n">>)

\* [T]::rotate_left(mid), for mid <= len
RotateLeft(s, mid) == SubSeq(s, mid + 1, Len(s)) \o SubSeq(s, 1, mid)

\* Vec::truncate
Truncate(s, len) == IF len < Len(s) THEN SubSeq(s, 1, len) ELSE s

\* Renderer::apply_colors: the coloured text, or a panic (`offset % len`
\* with len = 0, line 177)
ApplyColors(engine, effect_name, text, progress) ==
    LET char_count == NonWhitespaceCount(text)
    IN  IF effect_name \in {"rainbow", "color-cycle"}
        THEN [panic |-> FALSE,
              text  |-> ApplyGradientToText(text, GetColors(engine, char_count))]
        ELSE IF effect_name = "gradient-flow"
        THEN LET colors == GetColors(engine, char_count * 2)
                 offset == (progress * Len(colors)) \div PositionUnit
                 len    == Len(colors)
             IN  IF len = 0 THEN [panic |-> TRUE, text |-> <<>>]
                 ELSE [panic |-> FALSE,
                       text  |-> ApplyGradientToText(
                                    text,
                                    Truncate(RotateLeft(colors, offset % len),
                                             char_count))]
        ELSE LET at == ColorEngineColorAt(engine, progress)
             IN  IF at.some
                 THEN [panic |-> FALSE,
                       text  |-> Join([y \in 1..Len(Lines(text)) |->
                                         ApplyColorToLine(Lines(text)[y], <<at.color>>)],
                                      <<"\n">>)]
                 ELSE [panic |-> FALSE,
                       text  |-> ApplyGradientToText(
                                    text,
                                    GetColors(engine, IF char_count > 10 THEN char_count
                                                      ELSE 10))]

\* Blink::apply (effects.rs lines 860-868), progress in 1/8: the opacity is
\* 1.0 when (progress * 6.0).floor() is even and 0.0 when it is odd
BlinkApply(ascii_art, progress) ==
    LET blink_state == ((progress * 6) \div PositionUnit) % 2
    IN  [EffectResultNew(Render(ascii_art)) EXCEPT
           !.opacity = IF blink_state = 0 THEN PositionUnit ELSE 0]

\* Flicker::apply (effects.rs lines 665-674), progress in 1/8; flicker is
\* ((progress * 30.0).sin() + 1.0) / 2.0, a value from 0.0 to 1.0 given here
\* in 1/8, and the opacity is rounded to 1/8
FlickerApply(ascii_art, progress, flicker) ==
    [EffectResultNew(Render(ascii_art)) EXCEPT
       !.opacity = progress + ((PositionUnit - progress) * flicker) \div PositionUnit]

Mut_RenderFrame_HidesTransparent(engine, effect_name, effect_result, progress, size, overflow_checks) ==
    LET colored == IF HasColors(engine)
                   THEN ApplyColors(engine, effect_name, effect_result.text,
                                    progress)
                   ELSE [panic |-> FALSE, text |-> effect_result.text]
    IN  IF colored.panic THEN [panic |-> TRUE, prints |-> <<>>]
        ELSE IF effect_result.opacity <= 0 THEN [panic |-> FALSE, prints |-> <<>>]
        ELSE Paint(size, effect_result, colored.text, overflow_checks)

\* renderer.rs lines 84-128, after the effect returned its descriptor: the
\* colours, then the print_at calls of the frame
RenderFrame(engine, effect_name, effect_result, progress, size, overflow_checks) ==
    LET colored == IF HasColors(engine)
                   THEN ApplyColors(engine, effect_name, effect_result.text,
                                    progress)
                   ELSE [panic |-> FALSE, text |-> effect_result.text]
    IN  IF colored.panic THEN [panic |-> TRUE, prints |-> <<>>]
        ELSE Paint(size, effect_result, colored.text, overflow_checks)

\* cli.rs lines 27-31: the easing names the --motion-ease help documents
EasingOptionsDoc ==
    { "linear", "ease-in", "ease-out", "ease-in-out", "ease-in-quad",
      "ease-out-quad", "ease-in-out-quad", "ease-in-cubic", "ease-out-cubic",
      "ease-in-out-cubic", "ease-in-back", "ease-out-back",
      "ease-in-out-back", "ease-in-elastic", "ease-out-elastic",
      "ease-in-out-elastic", "ease-in-bounce", "ease-out-bounce",
      "ease-in-out-bounce" }

\* the names looked up: every listed and documented name, and strings that
\* are none of them
LookupNames ==
    {ListEffects[i] : i \in 1..Len(ListEffects)} \cup EffectNames
      \cup EasingNames \cup EasingOptionsDoc
      \cup {"not-an-effect", "not-an-easing", "", "Fade-In", "fade-in ",
            "fade_in", "LINEAR", "ease", "FadeIn", "Linear"}

\* engines a builder step is applied to
LibEngines == {AnimationEngineNew, [effect |-> "Typewriter", easing |-> "EaseInBack"]}

LibInit ==
    /\ args = CHOOSE a \in ArgsSet : TRUE
    /\ pc = "lib"
    /\ timeline = NoTimeline
    /\ harness = [op |-> "none"]
    /\ InitCommon

\* one call: its arguments and its result are recorded, nothing else changes
LibCall(h) ==
    /\ pc = "lib"
    /\ pc' = "lib_done"
    /\ harness' = h
    /\ UNCHANGED <<args, outcome, duration_ms, art, termvars, iter, inputvars,
                   looplocals, histvars>>

LibGetEffect ==
    \E name \in LookupNames :
       LibCall([op |-> "get_effect", name |-> name, out |-> GetEffect(name)])

LibGetEasingFunction ==
    \E name \in LookupNames :
       LibCall([op |-> "get_easing_function", name |-> name,
                out |-> GetEasingFunction(name)])

LibWithEffect ==
    \E name \in LookupNames, e \in LibEngines :
       LibCall([op |-> "with_effect", name |-> name, engine |-> e,
                out |-> WithEffect(e, name)])

LibWithEasing ==
    \E name \in LookupNames, e \in LibEngines :
       LibCall([op |-> "with_easing", name |-> name, engine |-> e,
                out |-> WithEasing(e, name)])

\* largest index and number of wraps of a get_color call
MaxIndex == 7

MaxWraps == 3

\* the palettes get_color is called on
LibPalettes ==
    { <<>>, <<Red>>, <<Blue, Red>>, <<Red, Green, Blue>>, <<Red, Red, Blue>>, Rainbow }

LibGetColor ==
    \E colors \in LibPalettes, i \in 0..MaxIndex, n \in 0..MaxWraps :
       LibCall([op |-> "get_color", colors |-> colors, index |-> i, wraps |-> n,
                out |-> GetColor(colors, i),
                out_wrapped |-> GetColor(colors, i + n * Len(colors))])

\* gradient strings: those of the command line, one with percentages, and
\* ones that name no colour
LibGradientStrings ==
    (GradientArgs \ {g \in GradientArgs : ~g.some})
      \cup { GradientString(TRUE, TRUE, <<Part("red"), Part("blue")>>),
             GradientString(TRUE, TRUE, <<PartAt("red", 25), PartAt("blue", 75)>>),
             GradientString(TRUE, TRUE, <<Part("to right"), Part("red"), Part("white"), Part("blue")>>),
             GradientString(TRUE, TRUE, <<Part("red")>>),
             GradientString(TRUE, TRUE, <<Part("90deg")>>),
             GradientString(TRUE, TRUE, <<Part("to right")>>),
             GradientString(TRUE, TRUE, <<Part("")>>) }

LibGradientParse ==
    \E g \in LibGradientStrings :
       LibCall([op |-> "gradient_parse", gradient |-> g, out |-> GradientParse(g),
                engine |-> WithGradient(g)])

\* the stop lists color_at is called on: those parsed from the strings, and
\* lists built with Gradient::new
LibStopLists ==
    {GradientParse(g).stops : g \in LibGradientStrings}
      \cup { <<Stop(ColorNew(10, 20, 30), 0), Stop(ColorNew(11, 18, 30), 8)>>,
             <<Stop(ColorNew(200, 0, 7), 0), Stop(ColorNew(100, 1, 4), 8)>>,
             <<Stop(Red, 0), Stop(Blue, 4)>>,
             <<Stop(Red, 4), Stop(Blue, 8)>>,
             <<Stop(Red, 2), Stop(White, 4), Stop(Blue, 6)>>,
             <<Stop(Red, 4), Stop(Blue, 4)>> }

\* the t color_at is called with, in 1/8: from below 0.0 to above 1.0
LibTs == (0 - 1)..(PositionUnit + 1)

LibColorAt ==
    \E stops \in LibStopLists, t \in LibTs :
       LibCall([op |-> "color_at", stops |-> stops, t |-> t, out |-> ColorAt(stops, t)])

\* the texts AsciiArt::new is called with: empty, one line, a block, one
\* with inner blanks, ragged lines, a trailing empty line, only blanks
LibTexts ==
    { <<>>,
      <<"H", "I">>,
      <<"A", "B", "\n", "C", "D">>,
      <<"#", " ", "#", "\n", " ", "#", " ">>,
      <<"#", "\n", "#", "#", "\n", "#">>,
      <<"x", "y", "z", "\n", "\n">>,
      <<" ", " ">> }

\* opacities in 1/8, from below 0.0 to above 1.0
LibOpacities == (0 - 1)..(PositionUnit + 1)

LibApplyFade ==
    \E text \in LibTexts, opacity \in LibOpacities :
       LibCall([op |-> "apply_fade", art |-> AsciiArtNew(text), opacity |-> opacity,
                out |-> ApplyFade(AsciiArtNew(text), opacity)])

\* factors: negative, zero, a tiny one, 1/4, 1/3 rounded, 1/2, just outside
\* and just inside the tolerance around 1.0, 1.5, 2.0, 3.0, NaN and f64::MAX
LibFactors ==
    {Factor(v) : v \in {0 - 1024, 0, 1, 256, 341, 512, 1000, 1013, 1014, 1024,
                        1034, 1035, 1536, 2048, 3072}} \cup {NaN, F64Max}

LibScale ==
    \E text \in LibTexts, factor \in LibFactors :
       LibCall([op |-> "scale", art |-> AsciiArtNew(text), factor |-> factor,
                out |-> Scale(AsciiArtNew(text), factor)])

\* the playbacks typewriter frames are taken from: 1000 ms at 10 fps and
\* 24 ms at 125 fps, at every frame from 0 to total_frames
LibPlaybacks ==
    { [TimelineNew(d[1], d[2]) EXCEPT !.current_frame = f] :
         d \in {<<1000, 10>>, <<24, 125>>}, f \in 0..10 }

LibTypewriter ==
    \E text \in LibTexts, t \in LibPlaybacks :
       /\ t.current_frame <= t.total_frames
       /\ LibCall([op |-> "typewriter", art |-> AsciiArtNew(text), timeline |-> t,
                   progress |-> LinearEase(Progress(t)),
                   out |-> TypewriterApply(AsciiArtNew(text), LinearEase(Progress(t)))])

\* the sizes a frame is painted in: the window's, and one narrower than
\* the text
LibSizes == TerminalSizes \cup {[width |-> 2, height |-> 1]}

\* offsets of a descriptor: i32::MIN, small ones of both signs, one past
\* the window, one past u16::MAX, and i32::MAX
LibOffsets == {0 - I32Max - 1, 0 - 100, 0 - 1, 0, 1, 30, U16Modulus + 10, I32Max}

\* the texts painted: the texts above, and one with colour sequences
LibPaintTexts ==
    LibTexts \cup
    { <<Esc, "[", "3", "1", "m", "A", Esc, "[", "0", "m", "B", "C", "\n", "D">> }

LibPaint ==
    \E size \in LibSizes, text \in LibPaintTexts, overflow_checks \in BOOLEAN,
       offset_x \in LibOffsets, offset_y \in LibOffsets :
       LET effect_result == [EffectResultNew(text) EXCEPT !.offset_x = offset_x,
                                                         !.offset_y = offset_y]
       IN  LibCall([op |-> "paint", size |-> size, effect_result |-> effect_result,
                    colored_text |-> text, overflow_checks |-> overflow_checks,
                    out |-> Paint(size, effect_result, text, overflow_checks)])

\* colour engines built as main.rs lines 47-50 build them: none, a palette,
\* a gradient of one stop and one of two
LibColorEngines ==
    { ColorEngineNew,
      ColorEngineWithPalette(ColorEngineNew,
                             [some |-> TRUE, colors |-> <<"red", "blue">>]).engine,
      ColorEngineWithGradient(ColorEngineNew,
                              GradientString(TRUE, TRUE, <<Part("red")>>)).engine,
      ColorEngineWithGradient(ColorEngineNew,
                              GradientString(TRUE, TRUE,
                                             <<Part("red"), Part("blue")>>)).engine }

\* names an Effect returns: the three apply_colors has an arm for, and four
\* of those that take its `_` arm
LibEffectNames ==
    {EffectName(struct) :
        struct \in {"Rainbow", "ColorCycle", "GradientFlow", "FadeIn", "Typewriter",
                    "Blink", "Flicker"}}

\* the texts coloured: the texts above, and one of a single character
LibColorTexts == LibTexts \cup { <<"x">> }

\* linear progress in 1/8
LibProgresses == {0, 3, PositionUnit}

\* the number of samples apply_colors asks get_colors for
SampleCount(effect_name, text) ==
    CASE effect_name \in {"rainbow", "color-cycle"} -> NonWhitespaceCount(text)
      [] effect_name = "gradient-flow"              -> NonWhitespaceCount(text) * 2
      [] OTHER                                      -> 0

LibApplyColors ==
    \E engine \in LibColorEngines, effect_name \in LibEffectNames,
       text \in LibColorTexts, progress \in LibProgresses :
       /\ (engine.mode.kind = "Gradient") => ExactSteps(SampleCount(effect_name, text))
       /\ LibCall([op |-> "apply_colors", engine |-> engine,
                   effect_name |-> effect_name, text |-> text, progress |-> progress,
                   out |-> ApplyColors(engine, effect_name, text, progress)])

\* the descriptors painted: those blink returns in its on and off phases,
\* those flicker returns, and one with an offset, a scale and an opacity
\* set by the builders of EffectResult
LibDescriptors(ascii_art) ==
    [blink   |-> {BlinkApply(ascii_art, p) : p \in {0, 1, 2, 4, PositionUnit}},
     flicker |-> {FlickerApply(ascii_art, p, f) :
                     p \in {0, 4}, f \in {0, 4, PositionUnit}},
     custom  |-> {[EffectResultNew(Render(ascii_art)) EXCEPT
                     !.offset_x = 3, !.offset_y = 0 - 1,
                     !.opacity = 4, !.scale = 2 * ScaleUnit]}]

LibRenderFrame ==
    \E engine \in LibColorEngines, text \in LibColorTexts,
       effect_name \in {"blink", "flicker", "custom"},
       progress \in {0, 4}, size \in TerminalSizes :
       \E effect_result \in LibDescriptors(AsciiArtNew(text))[effect_name] :
          LibCall([op |-> "render_frame", engine |-> engine,
                   art |-> AsciiArtNew(text), effect_name |-> effect_name,
                   effect_result |-> effect_result,
                   linear_progress |-> progress, size |-> size,
                   out |-> RenderFrame(engine, effect_name, effect_result,
                                       progress, size, TRUE)])

\* --color-palette values: none, an empty list, colours, and a list with a
\* string that is no colour
LibPaletteOptions == PaletteArgs \cup {[some |-> TRUE, colors |-> <<>>]}

\* main.rs lines 47-50 on an engine in any mode: with_palette(..)? and then
\* with_gradient(..)?
LibColorEngine ==
    \E engine \in LibColorEngines, palette \in LibPaletteOptions,
       gradient \in GradientArgs :
       LET with_palette == ColorEngineWithPalette(engine, palette)
       IN  LibCall([op |-> "color_engine", engine |-> engine, palette |-> palette,
                    gradient |-> gradient, with_palette |-> with_palette,
                    out |-> IF with_palette.ok
                            THEN ColorEngineWithGradient(with_palette.engine, gradient)
                            ELSE with_palette])

LibNext ==
    \/ LibGetEffect
    \/ LibGetEasingFunction
    \/ LibWithEffect
    \/ LibWithEasing
    \/ LibGetColor
    \/ LibGradientParse
    \/ LibColorAt
    \/ LibApplyFade
    \/ LibScale
    \/ LibTypewriter
    \/ LibPaint
    \/ LibApplyColors
    \/ LibRenderFrame
    \/ LibColorEngine

LibSpec == LibInit /\ [][LibNext]_vars

(***************************************************************************)
(* Properties.                                                             *)
(***************************************************************************)
\* the main task took the step
MainStep == mainvars' # mainvars

\* the flag of the current render call became set while the call was running
FlagSetWhileRunning == flag_pc \in RenderPcs

\* p and q are the same progress value
ProgressEq(p, q) == p[1] * q[2] = q[1] * p[2]

\* C1: when render returns Completed, the last frame it painted is the one
\* at linear progress 1.0 and no earlier frame was at 1.0; nothing is painted
\* once Completed is returned; Completed is returned only by the
\* is_complete test that follows a paint; and a call that returns without
\* its flag set and without a failed terminal operation returns Completed.
C1_FinalFramePaintedThenCompleted ==
    /\ [](render_ret = "Completed" =>
            /\ painted # <<>>
            /\ painted[Len(painted)] = One
            /\ \A i \in 1..(Len(painted) - 1) : painted[i] # One)
    /\ [](render_ret = "Cancelled" => should_exit[iter])
    /\ [][render_ret' = "Completed" /\ render_ret # "Completed" =>
            /\ pc = "is_complete"
            /\ painted' = painted
            /\ painted[Len(painted)] = linear_progress]_vars
    /\ [][render_ret = "Completed" /\ render_ret' = "Completed" =>
            UNCHANGED <<painted, tick_ops>>]_vars

C1_Witness ==
    /\ render_ret = "Completed"
    /\ ~should_exit[iter]
    /\ timeline.total_frames = 2
    /\ painted = << <<0, 2>>, <<1, 2>>, One >>

\* C2 as claimed: a flag set at any moment while render runs makes render
\* return Cancelled (never Completed), after at most one further paint and
\* one further sleep chunk of at most 5 ms.  Calls that end with the error
\* of a terminal operation are set aside.
C2_FlagSetAnyMomentCancels ==
    /\ (FlagSetWhileRunning /\ render_ret \notin {"none", "Err"}) =>
          render_ret = "Cancelled"
    /\ Cardinality(flag_ticks) <= 1
    /\ flag_chunks <= 1
    /\ \A i \in 1..Len(chunks) : chunks[i] <= ChunkMs

\* C2 amended: a flag set while render runs and before the loop's last read
\* of it (the post-paint check of the final tick) makes render return
\* Cancelled, or the error of a terminal operation that fails in the one
\* further paint; a flag set after that last read leaves Completed; in every
\* case at most one tick touches the terminal and at most one sleep chunk,
\* of at most 5 ms, begins after the flag was set.
C2_FlagSetBeforeLastReadCancels ==
    /\ (FlagSetWhileRunning /\ render_ret # "none") =>
          \/ render_ret = "Cancelled"
          \/ /\ render_ret = "Completed"
             /\ flag_pc = "is_complete"
          \/ /\ render_ret = "Err"
             /\ flag_pc \in {"clear", "refresh_size", "print"}
    /\ Cardinality(flag_ticks) <= 1
    /\ flag_chunks <= 1
    /\ \A i \in 1..Len(chunks) : chunks[i] <= ChunkMs

C2_Witness ==
    /\ render_ret = "Cancelled"
    /\ flag_pc = "clear"
    /\ flag_ticks = {1}
    /\ Len(painted) = 2

\* C3: a cancellation check that reads the flag set returns Cancelled in
\* that very step, with no terminal operation, no timeline advance and no
\* sleep; nothing of the call happens afterwards; and at the checks before
\* the paint the tick has not touched the terminal.
C3_ObservedFlagReturnsAtOnce ==
    /\ [][(pc \in {"check_top", "check_eased", "check_pre_paint",
                   "check_post_paint", "sleep_check"}
           /\ should_exit[iter] /\ MainStep) =>
            /\ render_ret' = "Cancelled"
            /\ pc' = "render_return"
            /\ UNCHANGED <<timeline, painted, tick_ops, chunks, remaining, termvars>>]_vars
    /\ [][render_ret = "Cancelled" /\ render_ret' = "Cancelled" =>
            UNCHANGED <<timeline, painted, tick_ops, chunks, remaining>>]_vars
    /\ [](pc \in {"check_eased", "check_pre_paint"} => tick_ops = <<>>)

C3_Witness ==
    /\ render_ret = "Cancelled"
    /\ flag_pc = "check_post_paint"
    /\ IsComplete(timeline)
    /\ timeline.total_frames = 2
    /\ Len(painted) = 3

\* C4 as claimed: after a render call that returned Cancelled, control is
\* never back at the head of the playback loop.
C4_CancelledEndsPlayback ==
    render_ret = "Cancelled" => pc # "loop"

\* C5 as claimed: when run_piglet has returned after a successful setup,
\* each teardown step has been executed exactly once and the terminal is
\* restored; no step is ever executed twice.
C5_TeardownExactlyOnce ==
    /\ termlog.show_leave <= 1
    /\ termlog.disable_raw <= 1
    /\ (pc = "done" /\ termlog.setup_ok = 1) =>
          /\ termlog.show_leave = 1
          /\ termlog.disable_raw = 1
          /\ ~tty.raw_mode

\* what holds of C5 as long as no crossterm call of cleanup() fails
C5_TeardownOnceIfCleanupSucceeds ==
    termlog.cleanup_err = 0 => C5_TeardownExactlyOnce

ConfigInvalid(a) ==
    \/ ~ParseDuration(a.duration).ok
    \/ ~WithPalette(a.color_palette).ok
    \/ ~WithGradient(a.color_gradient).ok
    \/ ~GetEffect(a.motion_effect).ok
    \/ ~GetEasingFunction(a.motion_ease).ok

\* C6: with a malformed duration, an invalid palette colour, a malformed
\* gradient, an unknown effect or an unknown easing, run_piglet never calls
\* setup, never touches the terminal, never starts a render call or a
\* listener and paints nothing, and what it returns is an error.
C6_ConfigErrorsBeforePlayback ==
    ConfigInvalid(args) =>
        /\ termlog.setup = 0
        /\ ~terminal.alive
        /\ tty = [raw_mode |-> FALSE, alternate_screen |-> FALSE, cursor_hidden |-> FALSE]
        /\ iter = 0
        /\ listeners = {}
        /\ painted = <<>>
        /\ tick_ops = <<>>
        /\ pc \in {"parse_duration", "figlet", "with_palette", "with_gradient",
                   "with_effect", "with_easing", "done"}
        /\ pc = "done" => outcome \in ConfigErrors \cup {"Err:figlet"}

C6_Witness ==
    /\ pc = "done"
    /\ outcome = "Err:easing"
    /\ args.color_palette.some
    /\ args.color_gradient.some

\* C7: the step in which a terminal operation of a tick fails is the step
\* in which render returns the error, and after it no terminal operation is
\* attempted, the timeline is not advanced, nothing sleeps and no render
\* call is started.
C7_TerminalErrorReturnsAtOnce ==
    /\ [][render_ret' = "Err" /\ render_ret # "Err" =>
            /\ pc' = "render_return"
            /\ UNCHANGED <<timeline, painted, chunks, remaining, iter>>]_vars
    /\ [][render_ret = "Err" =>
            /\ render_ret' = "Err"
            /\ UNCHANGED <<tick_ops, timeline, painted, chunks, remaining, iter>>]_vars
    /\ [](render_ret = "Err" => pc \in {"render_return", "drop", "done"})

C7_Witness ==
    /\ render_ret = "Err"
    /\ pc = "done"
    /\ art = 2
    /\ tick_ops = <<"clear", "refresh_size", "print_at">>
    /\ timeline.current_frame = 1

\* C8 as claimed: total_frames is the exact ceiling of duration_ms * fps / 1000.
C8_TotalFramesExactCeiling ==
    timeline.total_frames = (timeline.duration_ms * timeline.fps + 999) \div 1000

\* what holds of C8: total_frames is the exact ceiling or one more
C8_TotalFramesWithinOne ==
    LET exact == (timeline.duration_ms * timeline.fps + 999) \div 1000
    IN  exact <= timeline.total_frames /\ timeline.total_frames <= exact + 1

\* C9: after k next_frame() calls on a Timeline, progress() lies in [0,1],
\* is k/total_frames for k <= total_frames and 1.0 for k >= total_frames, is
\* 1.0 exactly when is_complete(), and no next_frame() call lowers it.
C9_ProgressMonotoneToOne ==
    /\ [](LET k == harness.calls
              n == timeline.total_frames
              p == Progress(timeline)
          IN  /\ ProgressLeq(<<0, 1>>, p)
              /\ ProgressLeq(p, One)
              /\ (k <= n /\ n > 0) => ProgressEq(p, <<k, n>>)
              /\ k >= n => p = One
              /\ IsComplete(timeline) <=> p = One)
    /\ [][harness'.calls = harness.calls + 1 =>
            ProgressLeq(Progress(timeline), Progress(timeline'))]_vars

C9_Witness ==
    /\ timeline.total_frames = 10
    /\ harness.calls = 5
    /\ Progress(timeline) = <<5, 10>>
    /\ ~IsComplete(timeline)

\* C10: next_frame() adds exactly 1 to current_frame and returns true when
\* current_frame < total_frames, and otherwise changes nothing and returns
\* false; 0 <= current_frame <= total_frames after any calls of start(),
\* reset() and next_frame().
C10_NextFrameBounded ==
    /\ [](0 <= timeline.current_frame /\ timeline.current_frame <= timeline.total_frames)
    /\ [][harness'.calls = harness.calls + 1 =>
            IF timeline.current_frame < timeline.total_frames
            THEN /\ timeline' = [timeline EXCEPT !.current_frame = @ + 1]
                 /\ harness'.ret = TRUE
            ELSE /\ timeline' = timeline
                 /\ harness'.ret = FALSE]_vars

C10_Witness ==
    /\ harness.calls = 4
    /\ harness.ret = FALSE
    /\ timeline.total_frames = 3
    /\ timeline.current_frame = 3

\* C11: a render call whose timeline has total_frames = 0 (duration 0 or
\* fps 0) reads progress 1.0, never reaches next_frame()/frame_duration()
\* and so never panics on 1000 / 0, paints at most one frame, and when it
\* returns Completed it has painted exactly one frame, at progress 1.0; the
\* call returns Cancelled only with its flag set.
C11_ZeroFramesPlayOneFrame ==
    (iter >= 1 /\ timeline.total_frames = 0) =>
        /\ args.fps = 0 \/ duration_ms = 0
        /\ Progress(timeline) = One
        /\ pc \notin {"advance", "sleep_check", "sleep"}
        /\ outcome # "Panic"
        /\ Len(painted) <= 1
        /\ \A i \in 1..Len(painted) : painted[i] = One
        /\ render_ret = "Completed" => painted = <<One>>
        /\ render_ret = "Cancelled" => should_exit[iter]
        /\ (args.fps = 0 => timeline.total_frames = 0)

C11_Witness ==
    /\ args.fps = 0
    /\ duration_ms = 16
    /\ timeline.total_frames = 0
    /\ render_ret = "Completed"
    /\ painted = <<One>>
    /\ ~should_exit[iter]
    /\ outcome = "Ok"


\* C12: get_effect(name) is Ok exactly for the names list_effects()
\* returns, and the effect it returns has that name(); get_easing_function
\* is Ok exactly for the 19 documented names; with_effect / with_easing
\* return the error for any other name, with no engine, and otherwise the
\* engine with that effect / easing and nothing else changed.
C12_LookupByNameIsExact ==
    /\ Len(ListEffects) = 51 /\ Cardinality(EasingOptionsDoc) = 19
    /\ harness.op = "get_effect" =>
          /\ harness.out.ok <=> \E i \in 1..Len(ListEffects) : ListEffects[i] = harness.name
          /\ harness.out.ok => EffectName(harness.out.value) = harness.name
    /\ harness.op = "get_easing_function" =>
          (harness.out.ok <=> harness.name \in EasingOptionsDoc)
    /\ harness.op = "with_effect" =>
          /\ harness.out.ok <=> \E i \in 1..Len(ListEffects) : ListEffects[i] = harness.name
          /\ ~harness.out.ok => harness.out.engine = "none"
          /\ harness.out.ok =>
                /\ EffectName(harness.out.engine.effect) = harness.name
                /\ harness.out.engine.easing = harness.engine.easing
    /\ harness.op = "with_easing" =>
          /\ harness.out.ok <=> harness.name \in EasingOptionsDoc
          /\ ~harness.out.ok => harness.out.engine = "none"
          /\ harness.out.ok => harness.out.engine.effect = harness.engine.effect

C12_Witness ==
    /\ harness.op = "with_effect"
    /\ harness.name = "not-an-effect"
    /\ ~harness.out.ok


\* C13: on a non-empty palette get_color(i) = get_color(i + n * len()), and
\* get_color(i) is the colour at position i mod len() in insertion order.
C13_PaletteIndexIsCyclic ==
    (harness.op = "get_color" /\ harness.colors # <<>>) =>
        /\ harness.out = harness.out_wrapped
        /\ \E k \in 1..Len(harness.colors) :
              /\ (harness.index - (k - 1)) % Len(harness.colors) = 0
              /\ harness.out = harness.colors[k]

C13_Witness ==
    /\ harness.op = "get_color"
    /\ harness.colors = <<Red, Green, Blue>>
    /\ harness.index = 4
    /\ harness.wraps = 2
    /\ harness.out = Green
    /\ harness.out_wrapped = Green


\* x lies strictly between a and b
StrictlyBetween(x, a, b) == (a < x /\ x < b) \/ (b < x /\ x < a)

\* the call is color_at on two stops at positions 0 and 1
TwoStopsZeroToOne ==
    /\ harness.op = "color_at"
    /\ Len(harness.stops) = 2
    /\ harness.stops[1].position = 0
    /\ harness.stops[2].position = PositionUnit

\* the r, g and b of a colour
Channels(c) == <<c.r, c.g, c.b>>

\* C14 as claimed: on two stops at 0 and 1, color_at(0.0) is the first
\* colour, color_at(1.0) the last, and color_at(0.5) has every channel
\* strictly between the endpoints' channels wherever they differ.
C14_MidpointStrictlyBetween ==
    TwoStopsZeroToOne =>
        LET c1 == Channels(harness.stops[1].color)
            c2 == Channels(harness.stops[2].color)
            o  == Channels(harness.out)
        IN  /\ harness.t = 0 => harness.out = harness.stops[1].color
            /\ harness.t = PositionUnit => harness.out = harness.stops[2].color
            /\ harness.t * 2 = PositionUnit =>
                  \A k \in 1..3 : c1[k] # c2[k] => StrictlyBetween(o[k], c1[k], c2[k])

\* C14 amended: as claimed, but at 0.5 a channel is strictly between the
\* endpoints' channels where they differ by 2 or more; where they differ by
\* exactly 1 it is the smaller of the two, and where they are equal it is
\* that value.
C14_MidpointBetweenWhenTwoApart ==
    TwoStopsZeroToOne =>
        LET c1 == Channels(harness.stops[1].color)
            c2 == Channels(harness.stops[2].color)
            o  == Channels(harness.out)
        IN  /\ harness.t = 0 => harness.out = harness.stops[1].color
            /\ harness.t = PositionUnit => harness.out = harness.stops[2].color
            /\ harness.t * 2 = PositionUnit =>
                  \A k \in 1..3 :
                     /\ (c1[k] - c2[k] >= 2 \/ c2[k] - c1[k] >= 2) =>
                           StrictlyBetween(o[k], c1[k], c2[k])
                     /\ (c1[k] - c2[k] = 1 \/ c2[k] - c1[k] = 1) =>
                           o[k] = (IF c1[k] < c2[k] THEN c1[k] ELSE c2[k])
                     /\ c1[k] = c2[k] => o[k] = c1[k]

C14_Witness ==
    /\ harness.op = "color_at"
    /\ harness.stops = GradientParse(GradientString(TRUE, TRUE, <<Part("red"), Part("blue")>>)).stops
    /\ harness.stops = <<Stop(Red, 0), Stop(Blue, PositionUnit)>>
    /\ harness.t * 2 = PositionUnit
    /\ harness.out = ColorNew(127, 0, 127)


\* the call is color_at on two or more stops in ascending position order
\* that do not span the whole of [0, 1]
StopsLeaveAMargin ==
    /\ harness.op = "color_at"
    /\ Len(harness.stops) >= 2
    /\ \A i \in 1..(Len(harness.stops) - 1) :
          harness.stops[i].position <= harness.stops[i + 1].position
    /\ \/ harness.stops[1].position > 0
       \/ harness.stops[Len(harness.stops)].position < PositionUnit

\* C15 as claimed: color_at clamps to the nearest endpoint: below the first
\* stop's position it returns the first stop's colour, above the last
\* stop's position the last stop's colour.
C15_ClampsToNearestEndpoint ==
    StopsLeaveAMargin =>
        /\ ClampUnit(harness.t) < harness.stops[1].position =>
              harness.out = harness.stops[1].color
        /\ ClampUnit(harness.t) > harness.stops[Len(harness.stops)].position =>
              harness.out = harness.stops[Len(harness.stops)].color

\* what holds of C15: on either side of the stops color_at returns the
\* last stop's colour
C15_OutsideIsLastStop ==
    StopsLeaveAMargin =>
        ((\/ ClampUnit(harness.t) < harness.stops[1].position
          \/ ClampUnit(harness.t) > harness.stops[Len(harness.stops)].position) =>
               harness.out = harness.stops[Len(harness.stops)].color)

\* C16 as claimed: a Gradient that parse returns has at least one stop, and
\* so has the gradient of a ColorEngine in Gradient mode.
C16_ParsedGradientHasAStop ==
    harness.op = "gradient_parse" =>
        /\ harness.out.ok => Len(harness.out.stops) >= 1
        /\ (harness.engine.ok /\ harness.engine.mode.kind = "Gradient") =>
              Len(harness.engine.mode.stops) >= 1

\* what holds of C16: parse returns no stop exactly when the string holds an
\* angle or a direction and nothing else
C16_NoStopOnlyForBareAngle ==
    (harness.op = "gradient_parse" /\ harness.out.ok) =>
        (harness.out.stops = <<>> <=>
            /\ Len(harness.gradient.parts) = 1
            /\ harness.gradient.parts[1].text \in AngleParts \cup DirectionParts)


\* a block of `height` lines of `width` spaces each
BlankBlock(width, height) ==
    Join([y \in 1..height |-> Repeat(<<" ">>, width)], <<"\n">>)

\* C17: apply_fade with opacity >= 1 returns exactly render(), and with
\* opacity <= 0 a block of as many lines as the art has, each of exactly
\* width spaces.
C17_FadeEndsAreTextAndBlankBlock ==
    harness.op = "apply_fade" =>
       /\ harness.opacity >= PositionUnit => harness.out = Render(harness.art)
       /\ harness.opacity <= 0 =>
             harness.out = BlankBlock(harness.art.width, harness.art.height)

\* C17, what the code does: opacity >= 1 gives render(); opacity <= 0 gives
\* width * height spaces with no line break, which is the blank block only
\* for an art of at most one line.
C17_FadeLowIsOneRunOfSpaces ==
    harness.op = "apply_fade" =>
       /\ harness.opacity >= PositionUnit => harness.out = Render(harness.art)
       /\ harness.opacity <= 0 =>
             /\ harness.out = Repeat(<<" ">>, harness.art.width * harness.art.height)
             /\ (harness.art.height <= 1 =>
                   harness.out = BlankBlock(harness.art.width, harness.art.height))
             /\ (harness.art.height >= 2 =>
                   harness.out # BlankBlock(harness.art.width, harness.art.height))


\* |factor - 1| < 0.01
NearOne(factor) ==
    /\ factor.kind = "num"
    /\ 100 * (factor.v - ScaleUnit) < ScaleUnit
    /\ 100 * (ScaleUnit - factor.v) < ScaleUnit

\* the three cases of scale the statement names
ScaleNamedCases ==
    /\ NearOne(harness.factor) => harness.out.art = harness.art
    /\ harness.factor.kind = "num" /\ harness.factor.v <= 0 =>
          harness.out.art = [lines |-> <<>>, width |-> 0, height |-> 0]
    /\ harness.factor.kind = "num" /\ harness.factor.v > 0
          /\ harness.factor.v < ScaleUnit => ScaleStride(harness.factor) >= 1

\* C18: scale with |factor - 1| < 0.01 returns the art unchanged, with
\* factor <= 0 the empty art, the stride of a factor in (0, 1) is at least 1,
\* and scale returns a result for every factor: it never fails.
C18_ScaleNeverFails ==
    harness.op = "scale" => ScaleNamedCases /\ ~harness.out.panic

\* C18 amended: the three cases as stated; scale returns a result for every
\* factor that is a number (here up to 3.0), it panics for NaN, and for
\* f64::MAX it returns only for an art without lines.
C18_ScaleFailsOnlyForNaNOrHuge ==
    harness.op = "scale" =>
       /\ ScaleNamedCases
       /\ harness.factor.kind = "num" => ~harness.out.panic
       /\ harness.factor.kind = "nan" => harness.out.panic
       /\ harness.factor.kind = "max" =>
             (harness.out.panic <=> harness.art.lines # <<>>)

\* a two-line art scaled by 341/1024: stride 3 keeps the first character of
\* the first line
C18_Witness ==
    /\ harness.op = "scale"
    /\ harness.factor = Factor(341)
    /\ harness.art.lines = << <<"A", "B">>, <<"C", "D">> >>
    /\ harness.out = [panic |-> FALSE, art |-> [lines |-> << <<"A">> >>, width |-> 1, height |-> 1]]


\* the number of non-whitespace cells before column x of line y, row by row
CellRank(ascii_art, y, x) ==
    Cardinality({c \in {<<v, u>> : v \in 1..y, u \in 1..ascii_art.width} :
                   /\ c[1] < y \/ c[2] < x
                   /\ c[2] <= Len(ascii_art.lines[c[1]])
                   /\ ~IsWhitespace(ascii_art.lines[c[1]][c[2]])})

\* the art with its first n non-whitespace cells shown and the later ones
\* blank
FirstCellsShown(ascii_art, n) ==
    Join([y \in 1..Len(ascii_art.lines) |->
            [x \in 1..Len(ascii_art.lines[y]) |->
               IF IsWhitespace(ascii_art.lines[y][x]) \/ CellRank(ascii_art, y, x) < n
               THEN ascii_art.lines[y][x] ELSE " "]],
         <<"\n">>)

\* the number of non-whitespace characters of a text
GlyphCount(text) == Cardinality({i \in 1..Len(text) : ~IsWhitespace(text[i])})

\* floor(char_count * p) for the double p, without rounding the product
ExactFloor(ascii_art, p) ==
    LET x == ProgressF64(p)
    IN  IF x.m = <<>> THEN 0
        ELSE BigToNat(BigShiftRight(BigMulSmall(x.m, CharCount(ascii_art)), 0 - x.e).q)

\* char_count * p is a double: the product needs no rounding
ProductIsExact(ascii_art, p) ==
    BigBitLen(BigMulSmall(ProgressF64(p).m, CharCount(ascii_art))) <= F64MantissaBits

\* tick 5 of a playback of 1000 ms at 10 fps
TickFiveOfTen ==
    /\ harness.timeline.duration_ms = 1000
    /\ harness.timeline.fps = 10
    /\ harness.timeline.current_frame = 5

\* C19: the typewriter text has the art's lines and line lengths, shows
\* exactly the first floor(char_count * p) non-whitespace cells in row-major
\* order, blanks the later ones and keeps whitespace; at tick 5 of 1000 ms at
\* 10 fps with linear easing it shows exactly half of the non-whitespace
\* characters.
C19_TypewriterShowsFloorAndHalf ==
    harness.op = "typewriter" =>
       /\ harness.out
            = FirstCellsShown(harness.art, ExactFloor(harness.art, harness.progress))
       /\ TickFiveOfTen => 2 * GlyphCount(harness.out) = CharCount(harness.art)

\* C19 amended: the text shows the first n non-whitespace cells, where n is
\* the integer part of the double product char_count * p: floor(char_count *
\* p) when the product is exact, and otherwise that or one more; at tick 5 it
\* shows floor(char_count / 2) of them.
C19_TypewriterShowsRoundedFloor ==
    harness.op = "typewriter" =>
       LET n == GlyphCount(harness.out)
           x == ExactFloor(harness.art, harness.progress)
       IN  /\ harness.out = FirstCellsShown(harness.art, n)
           /\ n \in {x, x + 1}
           /\ ProductIsExact(harness.art, harness.progress) => n = x
           /\ harness.timeline.current_frame = 0 => n = 0
           /\ harness.timeline.current_frame = harness.timeline.total_frames =>
                 harness.out = Render(harness.art)
           /\ TickFiveOfTen => n = CharCount(harness.art) \div 2

\* tick 5 of 10 on the two-line art "AB" / "CD": the first line is shown
C19_Witness ==
    /\ harness.op = "typewriter"
    /\ TickFiveOfTen
    /\ harness.timeline.total_frames = 10
    /\ harness.art.lines = << <<"A", "B">>, <<"C", "D">> >>
    /\ harness.out = <<"A", "B", "\n", " ", " ">>


\* C20: a render that is not cancelled and whose terminal operations succeed
\* runs total_frames + 1 ticks, each painting one frame; the painted frames
\* have the linear progress of frames 0, 1, ..., total_frames in that order,
\* strictly increasing, and the timeline is one frame further at each paint:
\* before the paint of a tick as many frames are painted as current_frame
\* says, after it one more.
C20_OnePaintPerFrameInOrder ==
    /\ pc \in {"check_top", "check_eased", "check_pre_paint", "clear",
               "refresh_size", "print", "sleep_check", "sleep"} =>
          Len(painted) = timeline.current_frame
    /\ pc \in {"check_post_paint", "is_complete", "advance"} =>
          Len(painted) = timeline.current_frame + 1
    /\ pc \in RenderPcs \cup {"render_return"} =>
          \A i \in 1..Len(painted) :
             /\ painted[i] = Progress([timeline EXCEPT !.current_frame = i - 1])
             /\ i > 1 => ~ProgressLeq(painted[i], painted[i - 1])
    /\ pc = "render_return" /\ render_ret = "Completed" =>
          Len(painted) = timeline.total_frames + 1

\* the second render of a looped playback of two frames has completed: three
\* paints, counted from the start of that render
C20_Witness ==
    /\ pc = "render_return"
    /\ render_ret = "Completed"
    /\ iter = 2
    /\ timeline.total_frames = 2
    /\ timeline.current_frame = 2
    /\ painted = << <<0, 2>>, <<1, 2>>, One >>


\* a 'q', Esc or Ctrl+C key event
ANamedQuitKey(e) ==
    e \in { [kind |-> "Key", code |-> "q",   ctrl |-> FALSE],
            [kind |-> "Key", code |-> "Esc", ctrl |-> FALSE],
            [kind |-> "Key", code |-> "c",   ctrl |-> TRUE] }

\* C21: the flag of a render call is false when its loop starts; it changes
\* only from false to true, only in a step of that call's listener that reads
\* a 'q', Esc or Ctrl+C key event, and in no step of the main task; an event
\* that is none of these leaves every flag as it was.
C21_FlagSingleWriterMonotone ==
    /\ [][pc = "loop" /\ pc' = "check_top" => ~should_exit'[iter']]_vars
    /\ [][\A l \in 1..MaxIter :
             should_exit'[l] # should_exit[l] =>
                /\ ~should_exit[l] /\ should_exit'[l]
                /\ l \in listeners
                /\ events # <<>> /\ ANamedQuitKey(Head(events))
                /\ events' = Tail(events)
                /\ UNCHANGED mainvars]_vars
    /\ [][events # <<>> /\ events' = Tail(events) /\ ~ANamedQuitKey(Head(events)) =>
             UNCHANGED should_exit]_vars
    /\ [][MainStep => UNCHANGED should_exit]_vars

\* the listener of the first render call read an event that is not a quit
\* key and then a quit key: its flag is set while the loop is in a tick
C21_Witness ==
    /\ iter = 1
    /\ should_exit[1]
    /\ n_events = 2
    /\ events = <<>>
    /\ flag_pc = "print"


\* C22: the listener of a render call is gone once that call has returned,
\* so at most one listener is alive, it is the one of the running call, and
\* a quit key read during iteration k sets the flag of iteration k.
C22_ListenerEndsWithItsRender ==
    /\ [](Cardinality(listeners) <= 1)
    /\ [](listeners # {} => listeners = {iter} /\ pc \in RenderPcs)
    /\ [][events # <<>> /\ events' = Tail(events) /\ ANamedQuitKey(Head(events)) =>
             ~should_exit[iter] /\ should_exit'[iter]]_vars

\* C22, what the code does: a listener ends only by reading a quit key, so
\* the listener of a call that returned Cancelled is gone, while the one of a
\* call that returned Completed or Err is still alive, also during the next
\* iteration; the flag a quit key sets is the one of the listener that read
\* it, whichever iteration is running.  The process exit ends them all.
C22_ListenerEndsOnlyOnQuitKey ==
    /\ [](pc # "done" =>
            \A l \in 1..MaxIter : l \in listeners <=> l <= iter /\ ~should_exit[l])
    /\ [](pc \in {"render_return", "loop"} /\ render_ret \in {"Completed", "Err"}
            /\ ~should_exit[iter] => iter \in listeners)
    /\ [](render_ret = "Cancelled" => iter \notin listeners)
    /\ [][pc' # "done" =>
             \A l \in listeners : l \notin listeners' =>
                /\ events # <<>> /\ ANamedQuitKey(Head(events))
                /\ should_exit'[l]]_vars

\* the second iteration is running with its flag clear, after the listener
\* of the first iteration consumed the quit key pressed during the second
C22_LeftoverListenerTookTheKey ==
    /\ iter = 2
    /\ pc \in RenderPcs
    /\ should_exit[1]
    /\ ~should_exit[2]
    /\ listeners = {2}
    /\ events = <<>>


\* the linear progress of the frames 0..total_frames of the call's timeline
TimelineFrames ==
    [i \in 1..(timeline.total_frames + 1) |->
       Progress([timeline EXCEPT !.current_frame = i - 1])]

\* C23: every render call starts with a new timeline at frame 0 made from
\* the configured duration and fps, a new flag that is false and nothing
\* painted; no step of the playback changes the configuration, and none
\* changes the duration, fps or frame count of the call's timeline; so in
\* every call the frames painted are the first frames of the configured
\* playback, and all of them when the call returns Completed.
C23_RenderStartsFresh ==
    /\ [][pc = "loop" /\ pc' = "check_top" =>
             /\ timeline' = [TimelineNew(duration_ms, args.fps) EXCEPT !.start_time = TRUE]
             /\ timeline'.current_frame = 0
             /\ ~should_exit'[iter']
             /\ painted' = <<>>]_vars
    /\ [][(pc \in RenderPcs \cup {"loop", "render_return"}) =>
             /\ UNCHANGED cfgvars
             /\ pc # "loop" =>
                   /\ timeline'.duration_ms = timeline.duration_ms
                   /\ timeline'.fps = timeline.fps
                   /\ timeline'.total_frames = timeline.total_frames]_vars
    /\ [](pc \in RenderPcs \cup {"render_return"} =>
            /\ Len(painted) <= Len(TimelineFrames)
            /\ painted = SubSeq(TimelineFrames, 1, Len(painted)))
    /\ [](pc = "render_return" /\ render_ret = "Completed" => painted = TimelineFrames)

\* the second render call of a looped playback of one frame has completed
C23_Witness ==
    /\ iter = 2
    /\ pc = "render_return"
    /\ render_ret = "Completed"
    /\ painted = << <<0, 1>>, One >>


\* setup() was called and returned an error
SetupFailed == termlog.setup = 1 /\ termlog.setup_ok = 0

\* C24: when setup fails, also after raw mode was enabled, raw mode is off
\* when run_piglet has returned.
C24_FailedSetupLeavesRawModeOff ==
    pc = "done" /\ SetupFailed => ~tty.raw_mode

\* C24, what the code does: after a failed setup original_state is still
\* false, so neither cleanup() nor the drop undoes anything: raw mode is left
\* as the failed setup left it.
C24_FailedSetupIsNeverUndone ==
    /\ SetupFailed => ~terminal.original_state
    /\ pc = "done" /\ SetupFailed =>
          /\ termlog.disable_raw = 0
          /\ termlog.show_leave = 0
          /\ outcome = "Err:io"

\* run_piglet has returned an error with the terminal still in raw mode
\* after enable_raw_mode succeeded and the screen step failed
C24_RawModeLeftOn ==
    /\ pc = "done"
    /\ SetupFailed
    /\ tty.raw_mode
    /\ ~tty.alternate_screen


RECURSIVE SeqSum(_)
SeqSum(s) == IF s = <<>> THEN 0 ELSE Head(s) + SeqSum(Tail(s))

\* C25: after an advance render sleeps only if the tick's elapsed time is
\* below frame_duration = floor(1000 / fps) ms; the wait is made of chunks of
\* at most 5 ms, each begun right after a cancellation check that read
\* false; the chunks and the time still to wait always add up to
\* frame_duration - elapsed, so the chunks of a wait that is not cancelled
\* sum to exactly that; the time still to wait is positive while the wait
\* lasts, decreases with every chunk and is zero when the wait ends.
C25_SleepIsChunkedAndExact ==
    /\ [][pc = "advance" /\ pc' = "sleep_check" =>
             /\ \E elapsed \in ElapsedValues :
                   /\ elapsed < 1000 \div args.fps
                   /\ remaining' = 1000 \div args.fps - elapsed
             /\ chunks' = <<>>]_vars
    /\ [][pc = "advance" /\ pc' = "check_top" =>
             /\ chunks' = <<>>
             /\ \E elapsed \in ElapsedValues : elapsed >= 1000 \div args.fps]_vars
    /\ [][pc' = "sleep" /\ pc # "sleep" => pc = "sleep_check" /\ ~should_exit[iter]]_vars
    /\ [][pc = "sleep" /\ MainStep =>
             /\ Len(chunks') = Len(chunks) + 1
             /\ chunks'[Len(chunks')] \in 1..ChunkMs
             /\ remaining' < remaining
             /\ remaining' >= 0
             /\ SeqSum(chunks') + remaining' = SeqSum(chunks) + remaining
             /\ pc' = IF remaining' = 0 THEN "check_top" ELSE "sleep_check"]_vars
    /\ [](pc \in {"sleep_check", "sleep"} =>
            /\ remaining > 0
            /\ SeqSum(chunks) + remaining <= 1000 \div args.fps)

\* a wait of 8 ms, not cancelled, has ended after chunks of 5 ms and 3 ms
C25_Witness ==
    /\ pc = "check_top"
    /\ chunks = <<5, 3>>
    /\ remaining = 0
    /\ ~should_exit[iter]


\* a sequence of terminal operations of one tick: a prefix of clear,
\* refresh_size and then prints only
PaintOrder(ops) ==
    \A k \in 1..Len(ops) :
        /\ (k = 1) => ops[k] = "clear"
        /\ (k = 2) => ops[k] = "refresh_size"
        /\ (k > 2) => ops[k] = "print_at"

OffsetPaint ==
    /\ pc = "lib_done"
    /\ harness.op = "paint"
    /\ harness.effect_result.offset_x # 0 \/ harness.effect_result.offset_y # 0

\* a coordinate of the offset branch as C27 has it: max(0, (extent - text
\* extent) / 2 + offset), with the division of the integers of the code
ClaimedCoordinate(extent, text_extent, offset) ==
    LET diff == extent - text_extent
        base == IF diff >= 0 THEN diff \div 2 ELSE 0 - ((0 - diff) \div 2)
    IN  IF base + offset > 0 THEN base + offset ELSE 0

\* the sum (extent - text extent) / 2 + offset is an i32
SumIsI32(extent, text_extent, offset) ==
    LET diff == extent - text_extent
        base == IF diff >= 0 THEN diff \div 2 ELSE 0 - ((0 - diff) \div 2)
    IN  /\ (offset > 0) => base <= I32Max - offset
        /\ (offset < 0) => base >= (0 - I32Max - 1) - offset

\* the widest line of the painted text, without its colour sequences
PaintedTextWidth ==
    LET lines == Lines(harness.colored_text)
        ws    == {Len(StripAnsi(lines[i])) : i \in 1..Len(lines)}
    IN  IF lines = <<>> THEN 0 ELSE CHOOSE w \in ws : \A v \in ws : v <= w

\* the print_at calls that put line i of the text (from 0) at column x and
\* row y + i, for the lines with y + i below the window's bottom
LinesFrom(x, y) ==
    LET lines == Lines(harness.colored_text)
        shown == SelectSeq([i \in 1..Len(lines) |-> i - 1],
                           LAMBDA i : y + i < harness.size.height)
    IN  [k \in 1..Len(shown) |->
           [x |-> x, y |-> y + shown[k], text |-> lines[shown[k] + 1]]]

\* C27 as claimed: with a non-zero offset whose sums are i32 values, the
\* frame is painted at x = max(0, (width - text_width) / 2 + offset_x) and
\* y = max(0, (height - text_height) / 2 + offset_y), line i at row y + i
\* when y + i is less than the terminal height, for every offset
C27_PaintsAtClampedSum ==
    LET d == harness.effect_result
        w == PaintedTextWidth
        h == Len(Lines(harness.colored_text))
    IN  (/\ OffsetPaint
         /\ SumIsI32(harness.size.width, w, d.offset_x)
         /\ SumIsI32(harness.size.height, h, d.offset_y))
        => /\ ~harness.out.panic
           /\ harness.out.prints =
                LinesFrom(ClaimedCoordinate(harness.size.width, w, d.offset_x),
                          ClaimedCoordinate(harness.size.height, h, d.offset_y))

\* C27, what the offset branch does: when a sum is not an i32 the paint
\* panics in a build with overflow checks and uses the wrapped sum in a
\* build without them; otherwise the frame is painted at the low 16 bits of
\* the two clamped sums, which are the clamped sums when they are less than
\* 65536; every print_at call has a column from 0 to 65535 and a row less
\* than the terminal height, and prints a line of the text
C27_PaintsAtLow16BitsOfClampedSum ==
    LET d == harness.effect_result
        w == PaintedTextWidth
        h == Len(Lines(harness.colored_text))
        inx == SumIsI32(harness.size.width, w, d.offset_x)
        iny == SumIsI32(harness.size.height, h, d.offset_y)
        cx == ClaimedCoordinate(harness.size.width, w, d.offset_x)
        cy == ClaimedCoordinate(harness.size.height, h, d.offset_y)
        prints == harness.out.prints
    IN  OffsetPaint =>
          /\ harness.out.panic <=> (harness.overflow_checks /\ ~(inx /\ iny))
          /\ \A k \in 1..Len(prints) :
                /\ prints[k].x >= 0
                /\ prints[k].x < 65536
                /\ prints[k].y >= 0
                /\ prints[k].y < harness.size.height
                /\ \E i \in 1..h : prints[k].text = Lines(harness.colored_text)[i]
          /\ (inx /\ iny) => prints = LinesFrom(cx % 65536, cy % 65536)
          /\ (inx /\ iny /\ cx < 65536 /\ cy < 65536) => prints = LinesFrom(cx, cy)

\* a frame of two lines with offset_x 65546 in a window of 80 columns: the
\* clamped sum is 65585 and the lines are printed at column 49
C27_Witness ==
    /\ OffsetPaint
    /\ harness.size = InitialSize
    /\ harness.effect_result.offset_x = 65546
    /\ harness.effect_result.offset_y = 1
    /\ harness.colored_text = <<"A", "B", "\n", "C", "D">>
    /\ harness.out.prints = <<[x |-> 49, y |-> 12, text |-> <<"A", "B">>],
                              [x |-> 49, y |-> 13, text |-> <<"C", "D">>]>>


\* apply_colors was called with an engine that has colours
ColoursApplied ==
    /\ pc = "lib_done"
    /\ harness.op = "apply_colors"
    /\ harness.engine.mode.kind \in {"Palette", "Gradient"}

\* the characters of a text that are not whitespace
Glyphs(text) == SelectSeq(text, LAMBDA c : c \notin {" ", "\t", "\n"})

\* C28 as claimed: in Palette or Gradient mode apply_colors returns a result
\* for every effect name, every linear progress and every text
C28_ApplyColorsNeverFails ==
    ColoursApplied => ~harness.out.panic

\* C28, what apply_colors does: in Palette or Gradient mode it panics
\* exactly under gradient-flow on a text without a non-whitespace character;
\* otherwise it returns a text with the same non-whitespace characters in
\* the same order once its colour sequences are stripped
C28_ApplyColorsFailsOnlyOnBlankGradientFlow ==
    ColoursApplied =>
       /\ harness.out.panic <=>
             (harness.effect_name = "gradient-flow" /\ Glyphs(harness.text) = <<>>)
       /\ ~harness.out.panic =>
             Glyphs(StripAnsi(harness.out.text)) = Glyphs(harness.text)

\* gradient-flow on two blanks with a palette of two colours
C28_Witness ==
    /\ ColoursApplied
    /\ harness.engine.mode = [kind |-> "Palette", colors |-> <<Red, Blue>>]
    /\ harness.effect_name = "gradient-flow"
    /\ harness.text = <<" ", " ">>
    /\ harness.out.panic


\* a frame was painted from a descriptor
FramePainted ==
    /\ pc = "lib_done"
    /\ harness.op = "render_frame"

EngineConfigured ==
    /\ pc = "lib_done"
    /\ harness.op = "color_engine"

\* an engine in one of the three modes, a palette never empty; has_colors,
\* color_at and get_colors agree with the mode
WellFormedEngine(e) ==
    /\ e.mode.kind \in {"None", "Palette", "Gradient"}
    /\ (e.mode.kind = "Palette") => e.mode.colors # <<>>
    /\ HasColors(e) <=> (e.mode.kind \in {"Palette", "Gradient"})
    /\ \A t \in 0..PositionUnit :
          ColorEngineColorAt(e, t).some <=> (e.mode.kind # "None")
    /\ (e.mode.kind = "None") => \A n \in 0..4 : GetColors(e, n) = <<>>
    /\ (e.mode.kind = "Palette") => \A n \in 0..4 : Len(GetColors(e, n)) = n

\* C30: an engine is in exactly one of the modes None, Palette and
\* Gradient, and has_colors() is false exactly in None; with_palette(None)
\* and with_palette of an empty list return the engine unchanged, so a
\* palette held is never empty; with_gradient(None) returns the engine
\* unchanged and with_gradient(Some(g)) that succeeds leaves the mode
\* Gradient, also after a palette was set; in None mode color_at returns no
\* colour and get_colors(n) is empty for every n
C30_EngineModes ==
    EngineConfigured =>
       LET e0 == harness.engine
           p  == harness.palette
           g  == harness.gradient
           r1 == harness.with_palette
           r  == harness.out
       IN  /\ WellFormedEngine(e0)
           /\ r1.ok => WellFormedEngine(r1.engine)
           /\ r.ok => WellFormedEngine(r.engine)
           /\ (~p.some \/ p.colors = <<>>) => (r1.ok /\ r1.engine = e0)
           /\ (r1.ok /\ r1.engine # e0) =>
                 (p.some /\ r1.engine.mode.kind = "Palette"
                    /\ Len(r1.engine.mode.colors) = Len(p.colors))
           /\ (r1.ok /\ ~g.some) => (r.ok /\ r.engine = r1.engine)
           /\ (r.ok /\ g.some) => r.engine.mode.kind = "Gradient"
           /\ ~r1.ok => ~r.ok

\* both options given to a new engine: the palette is set, and then
\* replaced by the gradient
C30_Witness ==
    /\ EngineConfigured
    /\ harness.engine = ColorEngineNew
    /\ harness.with_palette.ok
    /\ harness.with_palette.engine.mode = [kind |-> "Palette", colors |-> <<Red, Blue>>]
    /\ harness.out.ok
    /\ harness.out.engine.mode.kind = "Gradient"
    /\ Len(harness.out.engine.mode.stops) = 2

=============================================================================
